---------------------------- MODULE Spec2Model ----------------------------
(***************************************************************************)
(* Push-notification dispatch of mc0814/chat: the APNs adapter             *)
(* (server/push/apns: push_apns.go, payload.go) and the token cache of the *)
(* Feishu webhook adapter (push/feishu).                                   *)
(*                                                                         *)
(* Spec       the APNs adapter: Handler.Init, the dispatch loop, the send  *)
(*            tasks (sendApns) and the device store they read and delete   *)
(*            from.                                                        *)
(* SpecToken  the Feishu tenant-access-token cache: concurrent             *)
(*            getTenantAccessToken / refreshTenantAccessToken under        *)
(*            tokenLock, with a clock.                                     *)
(***************************************************************************)
EXTENDS Integers, Sequences, FiniteSets, TLC

(***************************************************************************)
(* Bounds of the model.                                                    *)
(***************************************************************************)
\* Receipts submitted to the adapter over one run.
MaxReceipts == 2
\* Capacity of handler.input and handler.channel (bufferSize = 1024 in the
\* source, push_apns.go:20), scaled down so that a full queue is reachable.
bufferSize == 1
\* Channel (subscription) requests submitted over one run.
MaxChannelReqs == 1

(***************************************************************************)
(* Go values.                                                              *)
(***************************************************************************)
\* A Go map[string]string is a function on its key set; a missing key reads
\* as the zero value "".
Get(m, k) == IF k \in DOMAIN m THEN m[k] ELSE ""

Put(m, k, v) == [x \in (DOMAIN m) \cup {k} |-> IF x = k THEN v ELSE m[x]]

EmptyMap == [x \in {} |-> ""]

\* The same read for a key that holds a text (a sequence of runes).
GetText(m, k) == IF k \in DOMAIN m THEN m[k] ELSE <<>>

\* strconv.Itoa on the small integers the model uses.
Itoa(n) ==
    CASE n = 0 -> "0" [] n = 1 -> "1" [] n = 2 -> "2" [] n = 3 -> "3"
      [] n = 4 -> "4" [] n = 5 -> "5" [] n = 6 -> "6" [] n = 7 -> "7"
      [] n = 8 -> "8" [] n = 9 -> "9"

\* The sequences that enumerate the finite set S once each: the orders in
\* which a Go range over a map with key set S can visit it.
RECURSIVE Orders(_)
Orders(S) ==
    IF S = {} THEN {<<>>}
    ELSE UNION {{<<x>> \o o : o \in Orders(S \ {x})} : x \in S}

RECURSIVE SumLen(_, _)
SumLen(f, S) ==
    IF S = {} THEN 0
    ELSE LET x == CHOOSE y \in S : TRUE
         IN Len(f[x]) + SumLen(f, S \ {x})


(***************************************************************************)
(* Text.  A Go string is the sequence of its runes; a rune is named by a   *)
(* token and has a UTF-8 width in bytes.  len(s) counts bytes,             *)
(* len([]rune(s)) counts runes.                                            *)
(***************************************************************************)
\* Runes that take three bytes in UTF-8: a CJK character and the ellipsis.
WideRunes == {"U+4E2D", "U+2026"}

Ellipsis == <<"U+2026">>

Width(r) == IF r \in WideRunes THEN 3 ELSE 1

RECURSIVE ByteLen(_)
ByteLen(s) == IF s = <<>> THEN 0 ELSE Width(Head(s)) + ByteLen(Tail(s))

AUDIO_CALL == <<"[", "A", "U", "D", "I", "O", " ", "C", "A", "L", "L", "]">>

VIDEO_CALL == <<"[", "V", "I", "D", "E", "O", " ", "C", "A", "L", "L", "]">>

MISSED_CALL == <<"[", "M", "I", "S", "S", "E", "D", " ", "C", "A", "L", "L", "]">>

\* fmt.Sprintf("%s: %s", a, b)
SprintfColon(a, b) == a \o <<":", " ">> \o b

(***************************************************************************)
(* Collaborators of the adapter that live outside src/: the push package's *)
(* constants, store/types' topic and user-id helpers, the drafty renderer, *)
(* the user and topic stores and the alert template table of common.Config.*)
(***************************************************************************)
ActMsg == "msg"

ActSub == "sub"

ActRead == "read"

\* push.MaxPayloadLength is 128 runes; scaled down so that texts of a few
\* runes reach it.
MaxPayloadLength == 3

ZeroUid == "zero"

Uids == {"u1", "u2", "u3", "u4", "u5"}

\* t.GetTopicCat: the category a topic name belongs to.
GetTopicCat(topic) ==
    CASE topic = "p2pAB" -> "p2p"
      [] topic = "grpG"  -> "grp"
      [] topic = "fnd"   -> "fnd"
      [] topic = "sys"   -> "sys"
      [] OTHER           -> "me"

\* t.ParseUserId: "usrA" is u1, "usrB" is u2; anything else is the zero uid.
ParseUserId(s) ==
    CASE s = "usrA" -> "u1"
      [] s = "usrB" -> "u2"
      [] OTHER      -> ZeroUid

\* t.P2PNameForUser: the name of a P2P topic as the user uid sees it, which
\* is the other participant's user name.
P2PNameForUser(uid, topic) ==
    IF topic = "p2pAB" /\ uid = "u1" THEN "usrB"
    ELSE IF topic = "p2pAB" /\ uid = "u2" THEN "usrA"
    ELSE ""

\* drafty.PlainText: the renderer's result for a content value.  A content
\* is a record [plain, plainErr, preview, previewErr].
PlainText(content) == [s |-> content.plain, err |-> content.plainErr]

\* drafty.Preview(content, length).
Preview(content, length) == [s |-> content.preview, err |-> content.previewErr]

\* A "public" blob: [isMap, hasFn, fn].  NoPublic is the nil interface.
NoPublic == [isMap |-> FALSE, hasFn |-> FALSE, fn |-> <<>>]

PublicOf(name) == [isMap |-> TRUE, hasFn |-> TRUE, fn |-> name]

\* store.Users.Get: [err, found, Public].
StoreUsersGet(uid) ==
    CASE uid = "u1" -> [err |-> FALSE, found |-> TRUE, Public |-> PublicOf(<<"A", "l">>)]
      [] uid = "u2" -> [err |-> FALSE, found |-> TRUE,
                        Public |-> [isMap |-> TRUE, hasFn |-> FALSE, fn |-> <<>>]]
      [] OTHER      -> [err |-> FALSE, found |-> FALSE, Public |-> NoPublic]

\* store.Topics.Get: [err, found, Public].
StoreTopicsGet(topic) ==
    CASE topic = "grpG" -> [err |-> FALSE, found |-> TRUE, Public |-> PublicOf(<<"G">>)]
      [] topic = "sys"  -> [err |-> TRUE, found |-> FALSE, Public |-> NoPublic]
      [] OTHER          -> [err |-> FALSE, found |-> FALSE, Public |-> NoPublic]

\* Timestamp.Format(time.RFC3339Nano) of the instants the model uses
\* (seconds after the epoch).
FormatRFC3339Nano(ts) ==
    CASE ts = 0 -> "1970-01-01T00:00:00Z"
      [] ts = 1 -> "1970-01-01T00:00:01Z"
      [] OTHER  -> "1970-01-01T00:00:02Z"

\* AccessMode.String() of the access modes the model uses (bit masks).
ModeString(m) ==
    CASE m = 0 -> "N"
      [] m = 1 -> "J"
      [] m = 3 -> "JR"
      [] OTHER -> "JRW"

(***************************************************************************)
(* payload.go                                                              *)
(***************************************************************************)
voipTimeToLive == 10

defaultTimeToLive == 3600

ACT_AUIDO == 1

ACT_VIDEO == 2

ACT_MISSED == 3

\* The "fn" string of a public blob, as getUserName and getTopicName read
\* it: a blob that is no map leaves the name empty, a map without a string
\* "fn" returns "".
FriendlyName(pub) == IF pub.isMap /\ pub.hasFn THEN pub.fn ELSE <<>>

getUserName(pl) ==
    IF pl.FromPub # NoPublic THEN FriendlyName(pl.FromPub)
    ELSE LET uid == ParseUserId(pl.From)
             suser == StoreUsersGet(uid)
         IN IF uid = ZeroUid THEN <<>>
            ELSE IF suser.err THEN <<>>
            ELSE IF ~suser.found THEN <<>>
            ELSE FriendlyName(suser.Public)

getTopicName(pl) ==
    IF pl.TopicPub # NoPublic THEN FriendlyName(pl.TopicPub)
    ELSE LET stopic == StoreTopicsGet(pl.Topic)
         IN IF stopic.err THEN <<>>
            ELSE IF ~stopic.found THEN <<>>
            ELSE FriendlyName(stopic.Public)

\* The trim if the byte length alone decided: a text of more bytes than
\* MaxPayloadLength gets the ellipsis after its first MaxPayloadLength runes
\* (after all of them if it has fewer).
TrimContent_ByBytes(s) ==
    IF ByteLen(s) > MaxPayloadLength
    THEN SubSeq(s, 1, IF Len(s) < MaxPayloadLength THEN Len(s) ELSE MaxPayloadLength)
            \o Ellipsis
    ELSE s

\* Lines 71-78: trim to MaxPayloadLength runes; the byte length is tested
\* first.
TrimContent(s) ==
    IF ByteLen(s) > MaxPayloadLength
    THEN IF Len(s) > MaxPayloadLength
         THEN SubSeq(s, 1, MaxPayloadLength) \o Ellipsis
         ELSE s
    ELSE s

\* Lines 47-53: seq, mime and the plain-text content.
MsgHead(pl, d) ==
    Put(IF pl.ContentType # ""
        THEN Put(Put(d, "seq", Itoa(pl.SeqId)), "mime", pl.ContentType)
        ELSE Put(d, "seq", Itoa(pl.SeqId)),
        "content", PlainText(pl.Content).s)

\* Lines 55-66: the title, and the sender's name in front of the content.
MsgTitle(pl, d) ==
    IF GetTopicCat(pl.Topic) = "p2p" THEN Put(d, "title", getUserName(pl))
    ELSE IF GetTopicCat(pl.Topic) \in {"grp", "fnd", "sys"}
         THEN Put(Put(d, "title", getTopicName(pl)),
                  "content", SprintfColon(getUserName(pl), d["content"]))
         ELSE d

\* Lines 73-78.
MsgTrim(d) == Put(d, "content", TrimContent(d["content"]))

\* Lines 86-93: the kind of call.
MsgCallKind(pl, d) ==
    IF pl.AudioOnly
    THEN Put(Put(Put(d, "aonly", "true"), "content", AUDIO_CALL), "act", Itoa(ACT_AUIDO))
    ELSE Put(Put(d, "content", VIDEO_CALL), "act", Itoa(ACT_VIDEO))

\* Lines 95-100 without the assignment of line 100.
MsgCallMissed_NotSilent(p, d) ==
    IF p.Webrtc = "missed"
    THEN Put(Put(d, "content", MISSED_CALL), "act", Itoa(ACT_MISSED))
    ELSE d

\* Lines 95-100: a missed call, and the silence of every call event.
MsgCallMissed(pl, d) ==
    Put(IF pl.Webrtc = "missed"
        THEN Put(Put(d, "content", MISSED_CALL), "act", Itoa(ACT_MISSED))
        ELSE d,
        "silent", "true")

\* Lines 83-101.
MsgCall(pl, d) ==
    IF pl.Webrtc # ""
    THEN MsgCallMissed(pl, MsgCallKind(pl, Put(d, "webrtc", pl.Webrtc)))
    ELSE d

\* Lines 102-106 without the assignment of line 104.
MsgReplace_NotSilent(p, d) ==
    IF p.Replace # "" THEN Put(d, "replace", p.Replace) ELSE d

\* Lines 102-106.
MsgReplace(pl, d) ==
    IF pl.Replace # ""
    THEN Put(Put(d, "silent", "true"), "replace", pl.Replace)
    ELSE d

\* The new-message branch of payloadToData (lines 46-109), from the dataset
\* d0 that already holds what, silent, topic, ts and xfrom.  The error of
\* the plain-text conversion is tested at line 68, the preview's at 107.
MsgData(pl, d0) ==
    IF PlainText(pl.Content).err THEN [data |-> EmptyMap, err |-> "drafty"]
    ELSE IF Preview(pl.Content, MaxPayloadLength).err
         THEN [data |-> EmptyMap, err |-> "drafty"]
    ELSE [data |-> MsgReplace(pl,
                      MsgCall(pl,
                         Put(MsgTrim(MsgTitle(pl, MsgHead(pl, d0))),
                             "rc", Preview(pl.Content, MaxPayloadLength).s))),
          err |-> ""]

\* payloadToData if an action kind it does not know were handled like a
\* read receipt.
payloadToData_AnyKind(pl) ==
    LET a == Put(EmptyMap, "what", pl.What)
        c == Put(a, "topic", pl.Topic)
    IN IF pl.What = ActMsg THEN MsgData(pl, c)
       ELSE [data |-> Put(Put(c, "seq", Itoa(pl.SeqId)), "silent", "true"), err |-> ""]

\* payloadToData: [data, err]; err = "" is a nil error.
\* The only caller, PrepareApnsNotifications, passes &rcpt.Payload, which is
\* never nil, so the "empty push payload" return of line 33 has no input.
\* A failed call returns a nil map, which reads like the empty one.
payloadToData(pl) ==
    LET a == Put(EmptyMap, "what", pl.What)
        b == IF pl.Silent THEN Put(a, "silent", "true") ELSE a
        c == Put(b, "topic", pl.Topic)
        d == Put(c, "ts", FormatRFC3339Nano(pl.Timestamp))
        e == Put(d, "xfrom", pl.From)
    IN IF pl.What = ActMsg THEN MsgData(pl, e)
       ELSE IF pl.What = ActSub
            THEN [data |-> Put(Put(e, "modeWant", ModeString(pl.ModeWant)),
                               "modeGiven", ModeString(pl.ModeGiven)),
                  err |-> ""]
       ELSE IF pl.What = ActRead
            THEN [data |-> Put(Put(e, "seq", Itoa(pl.SeqId)), "silent", "true"),
                  err |-> ""]
       ELSE [data |-> EmptyMap, err |-> "unknown push type"]

clonePayload(src) == [key \in DOMAIN src |-> src[key]]

\* The alert test without its look at the silent flag.
apnsShouldPresentAlert_Loud(what, callStatus, isSilent, config) ==
    /\ config.Enabled
    /\ what # ActRead
    /\ \/ callStatus = ""
       \/ (callStatus = "started" \/ callStatus = "missed")

apnsShouldPresentAlert(what, callStatus, isSilent, config) ==
    /\ config.Enabled
    /\ what # ActRead
    /\ \/ (callStatus = "" /\ isSilent = "")
       \/ (callStatus = "started" \/ callStatus = "missed")

\* common.Config.GetStringField: the template of an alert field for an
\* action kind; "" when the table (or the whole config block) has none.
\* A nil *common.Config is the empty sequence.
GetStringField(cc, what, field) ==
    IF cc = <<>> THEN <<>>
    ELSE IF <<what, field>> \in DOMAIN cc[1] THEN cc[1][<<what, field>>]
    ELSE <<>>

\* common.Config.GetIntField.
GetIntField(cc, what, field) ==
    IF cc = <<>> THEN 0
    ELSE IF <<what, field>> \in DOMAIN cc[1] THEN 1
    ELSE 0

\* The literal templates "$content" and "$title".
ContentTemplate == <<"$content">>

TitleTemplate == <<"$title">>

\* json.Marshal of the body: a map of strings and of a struct of strings
\* and ints has no value json cannot encode.
MarshalFails(tmpPayload) == FALSE

\* common.InterruptionLevel*, and apns2.PushType*.
InterruptionLevelTimeSensitive == "time-sensitive"

InterruptionLevelCritical == "critical"

InterruptionLevelPassive == "passive"

PushTypeAlert == "alert"

PushTypeBackground == "background"

\* The call test if it knew the start of a call only.
IsCall_StartedOnly(callStatus) == callStatus = "started"

\* Lines 263 and 324: the event is the start of a call or a missed call.
IsCall(callStatus) == callStatus = "started" \/ callStatus = "missed"

\* apnsNotificationConfig: [msg, err].  Expiration is kept as the number of
\* seconds after the time of the call.  A pointer (Alert, Payload) is the
\* empty sequence when nil and a one-element sequence otherwise.
apnsNotificationConfig(what, topic, data, unread, config, msg, uid) ==
    LET callStatus == Get(data, "webrtc")
        isCall == IsCall(callStatus)
        expires == IF isCall THEN voipTimeToLive
                   ELSE IF config.TimeToLive > 0 THEN config.TimeToLive
                   ELSE defaultTimeToLive
        pushType == IF ~isCall /\ what = ActRead THEN PushTypeBackground ELSE PushTypeAlert
        priority == IF ~isCall /\ what = ActRead THEN 5 ELSE 10
        interruptionLevel ==
            IF isCall THEN InterruptionLevelCritical
            ELSE IF what = ActRead THEN InterruptionLevelPassive
            ELSE InterruptionLevelTimeSensitive
        cc == config.CommonConfig
        bodyT == GetStringField(cc, what, "Body")
        body == IF bodyT = ContentTemplate THEN GetText(data, "content") ELSE bodyT
        titleT == GetStringField(cc, what, "Title")
        title == IF titleT = TitleTemplate THEN GetText(data, "title") ELSE titleT
        alert ==
            IF apnsShouldPresentAlert(what, callStatus, Get(data, "silent"), config)
            THEN << [Action          |-> GetStringField(cc, what, "Action"),
                     ActionLocKey    |-> GetStringField(cc, what, "ActionLocKey"),
                     Body            |-> body,
                     LaunchImage     |-> GetStringField(cc, what, "LaunchImage"),
                     LocKey          |-> GetStringField(cc, what, "LocKey"),
                     Title           |-> title,
                     Subtitle        |-> GetStringField(cc, what, "Subtitle"),
                     TitleLocKey     |-> GetStringField(cc, what, "TitleLocKey"),
                     SummaryArg      |-> GetStringField(cc, what, "SummaryArg"),
                     SummaryArgCount |-> GetIntField(cc, what, "SummaryArgCount")] >>
            ELSE <<>>
        apsPayload == [Badge             |-> unread,
                       ContentAvailable  |-> 1,
                       MutableContent    |-> 1,
                       InterruptionLevel |-> interruptionLevel,
                       Sound             |-> "default",
                       ThreadID          |-> topic,
                       Alert             |-> alert]
        tmpPayload == IF isCall
                      THEN [aps |-> <<apsPayload>>, act |-> <<Get(data, "act")>>]
                      ELSE [aps |-> <<apsPayload>>, act |-> <<>>]
    IN IF MarshalFails(tmpPayload) THEN [msg |-> msg, err |-> TRUE]
       ELSE [msg |-> [msg EXCEPT !.CollapseID = topic,
                                 !.Expiration = expires,
                                 !.PushType = pushType,
                                 !.Priority = priority,
                                 !.Payload = <<tmpPayload>>],
             err |-> FALSE]

\* Lines 193-197: the envelope before the platform switch.
Envelope(config, topic, d) ==
    [DeviceToken |-> d.DeviceId,
     Topic       |-> config.AppTopic,
     CollapseID  |-> topic,
     Expiration  |-> 0,
     PushType    |-> "",
     Priority    |-> 0,
     Payload     |-> <<>>]

\* The envelope of one device (lines 193-210): the half-built message, which
\* only platform "ios" completes; a failed build keeps the half-built one.
DeviceMessage(rcpt, config, topic, userData, uid, d) ==
    LET msg == Envelope(config, topic, d)
    IN IF d.Platform = "ios"
       THEN apnsNotificationConfig(rcpt.Payload.What, topic, userData,
                                   rcpt.To[uid].Unread, config, msg, uid).msg
       ELSE msg

\* Whether the inner loop appends an envelope for device d (line 192, and
\* lines 212-213, which stand after the platform switch, not inside it).
DeviceIsTarget(skipDevices, d) ==
    d.DeviceId \notin skipDevices /\ d.DeviceId # ""

\* Line 177: the recipient's dataset differs from the shared one.
Diverges(rcpt, uid) ==
    rcpt.To[uid].Delivered > 0 \/ GetTopicCat(rcpt.Payload.Topic) = "p2p"

\* Lines 174 and 180-181: the topic name the recipient sees.
UserTopic(rcpt, uid) ==
    IF GetTopicCat(rcpt.Payload.Topic) = "p2p"
    THEN P2PNameForUser(uid, rcpt.Payload.Topic)
    ELSE rcpt.Payload.Topic

\* Lines 180-187: the assignments to userData, made to the map m.
UserWrites(rcpt, uid, m) ==
    LET a == IF GetTopicCat(rcpt.Payload.Topic) = "p2p"
             THEN Put(m, "topic", UserTopic(rcpt, uid))
             ELSE m
    IN IF rcpt.To[uid].Delivered > 0 THEN Put(a, "silent", "true") ELSE a

\* Lines 175-188: userData, the dataset the recipient's envelopes are
\* built from.
UserData(rcpt, data, uid) ==
    IF Diverges(rcpt, uid) THEN UserWrites(rcpt, uid, clonePayload(data)) ELSE data

\* The map data after a pass if userData were the map data itself at the
\* assignments of lines 182 and 186.
BaseAfter_Shared(data, userData) == userData

\* The map data after a pass of the outer loop: the assignments of lines
\* 182 and 186 are made to userData, which line 178 has made a map of its
\* own, so data holds what it held.
BaseAfter(data, userData) == data

\* One pass of the outer loop (lines 173-215): the envelopes of one user,
\* each with the dataset it was built from.
UserMessages(rcpt, config, data, skipDevices, uid, devList) ==
    LET kept == SelectSeq(devList, LAMBDA d : DeviceIsTarget(skipDevices, d))
    IN [i \in 1..Len(kept) |->
          [msg |-> DeviceMessage(rcpt, config, UserTopic(rcpt, uid),
                                 UserData(rcpt, data, uid), uid, kept[i]),
           uid |-> uid,
           userData |-> UserData(rcpt, data, uid)]]

\* The outer loop: the passes in the order of the range, each starting from
\* the map data as the pass before left it.
RECURSIVE AllMessages(_, _, _, _, _, _)
AllMessages(rcpt, config, data, skipDevices, devices, order) ==
    IF order = <<>> THEN <<>>
    ELSE UserMessages(rcpt, config, data, skipDevices, Head(order), devices[Head(order)])
         \o AllMessages(rcpt, config,
                        BaseAfter(data, UserData(rcpt, data, Head(order))),
                        skipDevices, devices, Tail(order))

\* The skip set if only the first pass of the loop of line 143 ran: no
\* device is skipped.
SkipDevices_None(rcpt) == {}

\* Lines 142-155: the ids of the devices that received the event online.
SkipDevices(rcpt) == UNION {rcpt.To[uid].Devices : uid \in DOMAIN rcpt.To}

\* PrepareApnsNotifications if line 212 stood in the outer loop: one uid
\* for each user, not for each message.
PrepareApnsNotifications_UidPerUser(rcpt, config, getAll, order) ==
    LET parsed == payloadToData(rcpt.Payload)
        called == DOMAIN rcpt.To # {}
        devices == IF called THEN getAll.devices ELSE EmptyMap
        count == IF called THEN getAll.count ELSE 0
        all == AllMessages(rcpt, config, parsed.data, SkipDevices(rcpt), devices, order)
        none == [messages |-> <<>>, uids |-> <<>>, datasets |-> <<>>]
    IN IF parsed.err # "" THEN none
       ELSE IF called /\ getAll.err THEN none
       ELSE IF count = 0 /\ rcpt.Channel = "" THEN none
       ELSE [messages |-> [i \in 1..Len(all) |-> all[i].msg],
             uids     |-> order,
             datasets |-> [i \in 1..Len(all) |-> all[i].userData]]

\* PrepareApnsNotifications without the returns of lines 157-164.
PrepareApnsNotifications_NoReturn(rcpt, config, getAll, order) ==
    LET parsed == payloadToData(rcpt.Payload)
        all == AllMessages(rcpt, config, parsed.data, SkipDevices(rcpt),
                           getAll.devices, order)
    IN IF parsed.err # "" THEN [messages |-> <<>>, uids |-> <<>>, datasets |-> <<>>]
       ELSE [messages |-> [i \in 1..Len(all) |-> all[i].msg],
             uids     |-> [i \in 1..Len(all) |-> all[i].uid],
             datasets |-> [i \in 1..Len(all) |-> all[i].userData]]

\* PrepareApnsNotifications: [messages, uids], and with them the dataset
\* each message was built from (datasets, which the function does not
\* return).  getAll is what store.Devices.GetAll answered, [devices, count,
\* err] (not called, hence no devices and a count of 0, when rcpt.To is
\* empty); order is the order in which the range over the devices map
\* visits the users.
PrepareApnsNotifications(rcpt, config, getAll, order) ==
    LET parsed == payloadToData(rcpt.Payload)
        skipDevices == SkipDevices(rcpt)
        called == DOMAIN rcpt.To # {}
        devices == IF called THEN getAll.devices ELSE EmptyMap
        count == IF called THEN getAll.count ELSE 0
        all == AllMessages(rcpt, config, parsed.data, skipDevices, devices, order)
        none == [messages |-> <<>>, uids |-> <<>>, datasets |-> <<>>]
    IN IF parsed.err # "" THEN none
       ELSE IF called /\ getAll.err THEN none
       ELSE IF count = 0 /\ rcpt.Channel = "" THEN none
       ELSE [messages |-> [i \in 1..Len(all) |-> all[i].msg],
             uids     |-> [i \in 1..Len(all) |-> all[i].uid],
             datasets |-> [i \in 1..Len(all) |-> all[i].userData]]

(***************************************************************************)
(* The provider's answers (apns2.Response) and the inputs of a run.        *)
(***************************************************************************)
TransientReasons == {"InternalServerError", "ServiceUnavailable"}

\* The three case lists of lines 109, 110 and 111.
ConfigReasons109 ==
    {"BadCollapseId", "BadDeviceToken", "BadExpirationDate", "BadMessageId", "BadPriority"}

ConfigReasons110 ==
    {"BadTopic", "DeviceTokenNotForTopic", "DuplicateHeaders", "IdleTimeout",
     "InvalidPushType"}

ConfigReasons111 ==
    {"MissingDeviceToken", "MissingTopic", "PayloadEmpty", "TopicDisallowed",
     "BadCertificate"}

ReasonUnregistered == "Unregistered"

\* Reasons no case of the switch names: another APNs reason, and none.
OtherReasons == {"TooManyRequests", ""}

Reasons ==
    TransientReasons \cup ConfigReasons109 \cup ConfigReasons110 \cup ConfigReasons111
        \cup {ReasonUnregistered} \cup OtherReasons

\* The status APNs sends with a reason when it rejects a notification.
ErrorStatus(reason) ==
    CASE reason = "InternalServerError" -> 500
      [] reason = "ServiceUnavailable"  -> 503
      [] reason = ReasonUnregistered    -> 410
      [] reason = "TooManyRequests"     -> 429
      [] reason \in {"BadCertificate", "TopicDisallowed"} -> 403
      [] OTHER -> 400

\* Reason strings a response of status 200 may carry: none, or one of each
\* case of the switch.
OkReasons ==
    {"", "InternalServerError", "BadDeviceToken", "MissingTopic", ReasonUnregistered}

\* What the provider can answer: a rejection, or status 200 with or without
\* a reason string.
Responses ==
    {[StatusCode |-> ErrorStatus(r), Reason |-> r] : r \in Reasons}
        \cup {[StatusCode |-> 200, Reason |-> r] : r \in OkReasons}

\* The registered devices at start.  d1 is registered to u1 and to u2; u1
\* also holds a web registration; u2 also holds a registration with an
\* empty id and one with no platform; u3 holds two iOS devices; u4 holds a
\* device of another platform; u5 has no device.
InitStore ==
    [u \in Uids |->
        CASE u = "u1" -> << [DeviceId |-> "d1", Platform |-> "ios"],
                            [DeviceId |-> "d2", Platform |-> "web"] >>
          [] u = "u2" -> << [DeviceId |-> "d1", Platform |-> "ios"],
                            [DeviceId |-> "", Platform |-> "ios"],
                            [DeviceId |-> "d3", Platform |-> ""] >>
          [] u = "u3" -> << [DeviceId |-> "d4", Platform |-> "ios"],
                            [DeviceId |-> "d5", Platform |-> "ios"] >>
          [] u = "u4" -> << [DeviceId |-> "d6", Platform |-> "android"] >>
          [] OTHER    -> << >>]

SomeContent ==
    [plain |-> <<"h", "i">>, plainErr |-> FALSE, preview |-> <<"h", "i">>,
     previewErr |-> FALSE]

BasePayload ==
    [What |-> ActMsg, Silent |-> FALSE, Topic |-> "grpG", From |-> "usrA",
     Timestamp |-> 0, SeqId |-> 1, ContentType |-> "", Content |-> SomeContent,
     Webrtc |-> "", AudioOnly |-> FALSE, Replace |-> "",
     FromPub |-> NoPublic, TopicPub |-> NoPublic, ModeWant |-> 3, ModeGiven |-> 1]

\* A recipient's delivery state.
Rcpt(delivered, devices, unread) ==
    [Delivered |-> delivered, Devices |-> devices, Unread |-> unread]

NoRecipient == [u \in {} |-> Rcpt(0, {}, 0)]

\* The Receipts a producer submits.
Receipts ==
    { \* a group message; u1 has read it online on d1, which u2 owns too
      [Payload |-> BasePayload, Channel |-> "",
       To |-> [u \in {"u1", "u2"} |->
                 IF u = "u1" THEN Rcpt(1, {"d1"}, 0) ELSE Rcpt(0, {}, 2)]],
      \* a read receipt to u2
      [Payload |-> [BasePayload EXCEPT !.What = ActRead], Channel |-> "",
       To |-> [u \in {"u2"} |-> Rcpt(0, {}, 0)]],
      \* an action kind payloadToData does not know
      [Payload |-> [BasePayload EXCEPT !.What = "del"], Channel |-> "",
       To |-> [u \in {"u1"} |-> Rcpt(0, {}, 1)]],
      \* a call start on the P2P topic of u1 and u2, sent by u1
      [Payload |-> [BasePayload EXCEPT !.Topic = "p2pAB", !.Webrtc = "started"],
       Channel |-> "",
       To |-> [u \in {"u2"} |-> Rcpt(0, {}, 1)]],
      \* a subscription change to u3 and u5
      [Payload |-> [BasePayload EXCEPT !.What = ActSub], Channel |-> "",
       To |-> [u \in {"u3", "u5"} |-> Rcpt(0, {}, 0)]],
      \* a message to u4
      [Payload |-> BasePayload, Channel |-> "",
       To |-> [u \in {"u4"} |-> Rcpt(0, {}, 1)]],
      \* a message to u5, who has no device
      [Payload |-> BasePayload, Channel |-> "",
       To |-> [u \in {"u5"} |-> Rcpt(0, {}, 1)]],
      \* a channel message to nobody
      [Payload |-> BasePayload, Channel |-> "chn", To |-> NoRecipient] }

\* The configurations Handler.Init is given: jsonconf as text, what
\* json.Unmarshal makes of it, and whether the credentials file loads.
TemplateTable ==
    [k \in {<<ActMsg, "Body">>, <<ActMsg, "Title">>, <<ActSub, "Body">>} |->
        IF k[2] = "Title" THEN TitleTemplate
        ELSE IF k[1] = ActMsg THEN ContentTemplate ELSE <<"N", "e", "w">>]

GoodConfig ==
    [Enabled |-> TRUE, AppTopic |-> "com.app", TimeToLive |-> 0,
     CommonConfig |-> <<TemplateTable>>]

JsonConfs ==
    { [parses |-> FALSE, config |-> GoodConfig, certOk |-> TRUE],
      [parses |-> TRUE, config |-> [GoodConfig EXCEPT !.Enabled = FALSE], certOk |-> TRUE],
      [parses |-> TRUE, config |-> GoodConfig, certOk |-> FALSE],
      [parses |-> TRUE, config |-> GoodConfig, certOk |-> TRUE] }

(***************************************************************************)
(* State of the APNs adapter (push_apns.go).                               *)
(***************************************************************************)
VARIABLES
    initRet,   \* what Handler.Init returned: <<>> before the call, else <<[ok, err]>>
    made,      \* handler.input, handler.channel and handler.stop are made (non-nil)
    input,     \* handler.input: the queued Receipts
    channel,   \* handler.channel: the queued channel requests
    stop,      \* handler.stop: the number of stop signals buffered (capacity 1)
    config,    \* the configuration the dispatch loop's closure holds
    loop,      \* the dispatch goroutine: "none", "running", "exited"
    exited,    \* the process has terminated (log.Fatal, or a panic in a goroutine)
    tasks,     \* the send tasks (goroutines running sendApns), in start order
    store,     \* store.Devices: the registered devices of each user
    deleted,   \* the calls of store.Devices.Delete made so far
    last,      \* the provider response the step that led here handled, if it handled one
    submitted, \* the Receipts whose send on Push() completed, in order
    nchan      \* channel requests submitted so far

avars == <<initRet, made, input, channel, stop, config, loop, exited, tasks,
           store, deleted, last, submitted, nchan>>

NoResponse == [task |-> 0, i |-> 0, StatusCode |-> 0, Reason |-> ""]

(***************************************************************************)
(* State of the Feishu adapter's token cache (getTenantAccessToken and     *)
(* refreshTenantAccessToken under tokenLock).                              *)
(***************************************************************************)
VARIABLES
    tokenInfo,  \* handler.tokenInfo: the cached entry of each app id that has one
    readers,    \* tokenLock.mu: the callers that hold it shared
    writer,     \* tokenLock.mu: the caller that holds it exclusively, or 0
    waiting,    \* tokenLock.mu: the callers blocked in Lock()
    now,        \* time.Now().Unix()
    ticks,      \* clock steps taken
    fphase,     \* Handler.Init of the adapter: "init", then "running"
    inited,     \* the apps Handler.Init has tried to refresh
    get,        \* each send task's call of getTenantAccessToken
    fexited,    \* the process has terminated (a fatal error of the runtime)
    lastRet     \* the call of getTenantAccessToken that returned in the step that
                \* led here, if one did

fvars == <<tokenInfo, readers, writer, waiting, now, ticks, fphase, inited, get,
           fexited, lastRet>>

(***************************************************************************)
(* A call of payloadToData on its own: its argument and what it returned.  *)
(***************************************************************************)
VARIABLES
    pl,         \* the Payload payloadToData is called with
    result      \* <<>> before the call, then <<[data, err]>>

(***************************************************************************)
(* A call of apnsNotificationConfig on its own, as line 201 makes it.      *)
(***************************************************************************)
VARIABLES
    arg,        \* [rcpt, config, uid, d]: the Receipt, the configuration, the
                \* recipient and the device the call is made for
    ret         \* <<>> before the call, then <<[msg, err]>>

pvars == <<pl, result, arg, ret>>

(***************************************************************************)
(* A send task of the Feishu adapter (sendFeishuMessage) and the requests  *)
(* it has issued to the provider's message endpoints.                      *)
(***************************************************************************)
VARIABLES
    wtask,      \* the task: where it stands (pc), its Receipt, the users it
                \* sends to, the index of the current one, the urgent flag and
                \* the message id the last POST returned
    wreqs       \* the requests issued so far, each with the answer it got

wvars == <<wtask, wreqs>>

vars == <<avars, fvars, pvars, wvars>>

AInit ==
    /\ initRet = <<>>
    /\ made = FALSE
    /\ input = <<>>
    /\ channel = <<>>
    /\ stop = 0
    /\ config = [GoodConfig EXCEPT !.Enabled = FALSE]
    /\ loop = "none"
    /\ exited = FALSE
    /\ tasks = <<>>
    /\ store = InitStore
    /\ deleted = {}
    /\ last = NoResponse
    /\ submitted = <<>>
    /\ nchan = 0

\* Handler.Init, lines 42-81.
HandlerInit(jsonconf) ==
    /\ ~exited
    /\ initRet = <<>>
    /\ IF ~jsonconf.parses
       THEN /\ initRet' = <<[ok |-> FALSE, err |-> "failed to parse config"]>>
            /\ UNCHANGED <<made, config, loop, exited>>
       ELSE IF ~jsonconf.config.Enabled
       THEN /\ initRet' = <<[ok |-> FALSE, err |-> ""]>>
            /\ UNCHANGED <<made, config, loop, exited>>
       ELSE IF ~jsonconf.certOk
       THEN \* log.Fatal: os.Exit(1); Init does not return.
            /\ exited' = TRUE
            /\ UNCHANGED <<initRet, made, config, loop>>
       ELSE /\ initRet' = <<[ok |-> TRUE, err |-> ""]>>
            /\ made' = TRUE
            /\ config' = jsonconf.config
            /\ loop' = "running"
            /\ UNCHANGED exited
    /\ last' = NoResponse
    /\ UNCHANGED <<input, channel, stop, tasks, store, deleted, submitted, nchan>>
    /\ UNCHANGED <<fvars, pvars, wvars>>

\* Handler.IsReady, lines 130-132.
IsReady == made

\* A channel whose sends never block.
HasRoom_Always(q) == TRUE

\* Lines 63-64: a send on a channel made with capacity bufferSize completes
\* only while the buffer holds fewer elements than that.
HasRoom(q) == Len(q) < bufferSize

\* A producer's send on Handler.Push(): it completes when the buffer has
\* room and blocks otherwise (for ever on the nil channel of an adapter
\* that is not ready).
Submit(rcpt) ==
    /\ ~exited
    /\ made
    /\ Len(submitted) < MaxReceipts
    /\ HasRoom(input)
    /\ input' = Append(input, rcpt)
    /\ submitted' = Append(submitted, rcpt)
    /\ last' = NoResponse
    /\ UNCHANGED <<initRet, made, channel, stop, config, loop, exited, tasks,
                   store, deleted, nchan>>
    /\ UNCHANGED <<fvars, pvars, wvars>>

\* A producer's send on Handler.Channel().
SubmitChannel ==
    /\ ~exited
    /\ made
    /\ nchan < MaxChannelReqs
    /\ HasRoom(channel)
    /\ channel' = Append(channel, "sub")
    /\ nchan' = nchan + 1
    /\ last' = NoResponse
    /\ UNCHANGED <<initRet, made, input, stop, config, loop, exited, tasks,
                   store, deleted, submitted>>
    /\ UNCHANGED <<fvars, pvars, wvars>>

\* Handler.Stop, lines 142-144: a send on handler.stop, of capacity 1.
Stop ==
    /\ ~exited
    /\ made
    /\ stop < 1
    /\ stop' = stop + 1
    /\ last' = NoResponse
    /\ UNCHANGED <<initRet, made, input, channel, config, loop, exited, tasks,
                   store, deleted, submitted, nchan>>
    /\ UNCHANGED <<fvars, pvars, wvars>>

\* A send task at its start: sendApns has been called and has run nothing.
\* lookup records how store.Devices.GetAll answered the task: "none" (not
\* called), "err", "zero" (no device) or "ok"; datasets holds the dataset
\* each message was built from.
NewTask(rcpt) ==
    [rcpt |-> rcpt, pc |-> "prepare", lookup |-> "none", messages |-> <<>>,
     uids |-> <<>>, datasets |-> <<>>, i |-> 1, sent |-> <<>>]

\* The select of lines 69-76, case rcpt := <-handler.input.
LoopReceipt ==
    /\ ~exited
    /\ loop = "running"
    /\ input # <<>>
    /\ tasks' = Append(tasks, NewTask(Head(input)))
    /\ input' = Tail(input)
    /\ last' = NoResponse
    /\ UNCHANGED <<initRet, made, channel, stop, config, loop, exited, store,
                   deleted, submitted, nchan>>
    /\ UNCHANGED <<fvars, pvars, wvars>>

\* Case sub := <-handler.channel: the request is printed.
LoopChannel ==
    /\ ~exited
    /\ loop = "running"
    /\ channel # <<>>
    /\ channel' = Tail(channel)
    /\ last' = NoResponse
    /\ UNCHANGED <<initRet, made, input, stop, config, loop, exited, tasks, store,
                   deleted, submitted, nchan>>
    /\ UNCHANGED <<fvars, pvars, wvars>>

\* Case <-handler.stop: the goroutine returns.
LoopStop ==
    /\ ~exited
    /\ loop = "running"
    /\ stop > 0
    /\ stop' = stop - 1
    /\ loop' = "exited"
    /\ last' = NoResponse
    /\ UNCHANGED <<initRet, made, input, channel, config, exited, tasks, store,
                   deleted, submitted, nchan>>
    /\ UNCHANGED <<fvars, pvars, wvars>>

\* Send tasks that ran only as long as the dispatch loop does.
TaskCanRun_WithLoop == ~exited /\ loop = "running"

\* Line 71: a send task is a goroutine of its own, which nothing cancels; it
\* runs as long as the process does.
TaskCanRun == ~exited

\* store.Devices.GetAll(uids...) when it succeeds: the devices of the users
\* that have any, and their number.
GetAllOk(uids) ==
    LET have == {u \in uids : store[u] # <<>>}
    IN [devices |-> [u \in have |-> store[u]],
        count   |-> SumLen(store, have),
        err     |-> FALSE]

\* store.Devices.GetAll(uids...) when it fails.  What comes with the error
\* is the adapter's choice: nothing, or the rows read before the failure.
GetAllErr(uids) ==
    {[devices |-> EmptyMap, count |-> 0, err |-> TRUE],
     [GetAllOk(uids) EXCEPT !.err = TRUE]}

\* sendApns, line 84: the call of PrepareApnsNotifications, with the lookup
\* it makes in the store.
TaskPrepare(t) ==
    /\ TaskCanRun
    /\ t \in 1..Len(tasks)
    /\ tasks[t].pc = "prepare"
    /\ \E getAll \in {GetAllOk(DOMAIN tasks[t].rcpt.To)}
                         \cup GetAllErr(DOMAIN tasks[t].rcpt.To) :
         \E order \in Orders(DOMAIN getAll.devices) :
           LET r == PrepareApnsNotifications(tasks[t].rcpt, config, getAll, order)
           IN tasks' = [tasks EXCEPT ![t].messages = r.messages,
                                     ![t].uids = r.uids,
                                     ![t].datasets = r.datasets,
                                     ![t].lookup =
                                         IF DOMAIN tasks[t].rcpt.To = {} THEN "none"
                                         ELSE IF getAll.err THEN "err"
                                         ELSE IF getAll.count = 0 THEN "zero"
                                         ELSE "ok",
                                     ![t].pc = IF Len(r.messages) = 0 THEN "done"
                                               ELSE "push"]
    /\ last' = NoResponse
    /\ UNCHANGED <<initRet, made, input, channel, stop, config, loop, exited,
                   store, deleted, submitted, nchan>>
    /\ UNCHANGED <<fvars, pvars, wvars>>

\* Line 95: handler.client.Push(notification) is called for message i.
TaskPush(t) ==
    /\ TaskCanRun
    /\ t \in 1..Len(tasks)
    /\ tasks[t].pc = "push"
    /\ tasks' = [tasks EXCEPT ![t].pc = "wait",
                              ![t].sent = Append(@, tasks[t].i)]
    /\ last' = NoResponse
    /\ UNCHANGED <<initRet, made, input, channel, stop, config, loop, exited,
                   store, deleted, submitted, nchan>>
    /\ UNCHANGED <<fvars, pvars, wvars>>

\* The switch if the case of line 115 had an empty body.
Classify_UnregisteredNext(res) ==
    IF res.StatusCode # 200
    THEN CASE res.Reason \in ConfigReasons109 \cup ConfigReasons110 -> "next"
           [] res.Reason = ReasonUnregistered -> "next"
           [] OTHER -> "return"
    ELSE "next"

\* The switch if the case of line 105 had an empty body.
Classify_TransientNext(res) ==
    IF res.StatusCode # 200
    THEN CASE res.Reason \in TransientReasons -> "next"
           [] res.Reason \in ConfigReasons109 \cup ConfigReasons110 -> "next"
           [] res.Reason = ReasonUnregistered -> "delete"
           [] OTHER -> "return"
    ELSE "next"

\* The switch without the status test of line 101.
Classify_AnyStatus(res) ==
    CASE res.Reason \in TransientReasons -> "return"
      [] res.Reason \in ConfigReasons109 \cup ConfigReasons110 -> "next"
      [] res.Reason \in ConfigReasons111 -> "return"
      [] res.Reason = ReasonUnregistered -> "delete"
      [] OTHER -> "return"

\* Lines 103-126: what the response does to the batch: "next" (go on with
\* the next message), "return" (the task ends) or "delete" (delete the
\* registration, then go on).  A case with an empty body leaves the switch.
Classify(res) ==
    IF res.StatusCode # 200
    THEN CASE res.Reason \in TransientReasons -> "return"
           [] res.Reason \in ConfigReasons109 -> "next"
           [] res.Reason \in ConfigReasons110 -> "next"
           [] res.Reason \in ConfigReasons111 -> "return"
           [] res.Reason = ReasonUnregistered -> "delete"
           [] OTHER -> "return"
    ELSE "next"

\* store.Devices.Delete(uid, deviceID) when it succeeds.
DevicesDelete(st, uid, deviceID) ==
    [st EXCEPT ![uid] = SelectSeq(@, LAMBDA d : d.DeviceId # deviceID)]

\* The task after message i has been dealt with: the next pass of the loop
\* of line 85, or its end.
Advance(task) ==
    [task EXCEPT !.i = @ + 1,
                 !.pc = IF task.i + 1 > Len(task.messages) THEN "done" ELSE "push"]

\* Lines 95-127 when Push returns a response and no error.
TaskResponse(t, res) ==
    /\ TaskCanRun
    /\ t \in 1..Len(tasks)
    /\ tasks[t].pc = "wait"
    /\ last' = [task |-> t, i |-> tasks[t].i,
                StatusCode |-> res.StatusCode, Reason |-> res.Reason]
    /\ LET task == tasks[t]
           what == Classify(res)
       IN CASE what = "return" ->
                 /\ tasks' = [tasks EXCEPT ![t].pc = "done"]
                 /\ UNCHANGED <<store, deleted>>
            [] what = "next" ->
                 /\ tasks' = [tasks EXCEPT ![t] = Advance(task)]
                 /\ UNCHANGED <<store, deleted>>
            [] what = "delete" ->
                 /\ tasks' = [tasks EXCEPT ![t] = Advance(task)]
                 /\ \E ok \in BOOLEAN :
                      /\ deleted' = deleted \cup
                            {[task |-> t, i |-> task.i, uid |-> task.uids[task.i],
                              deviceID |-> task.messages[task.i].DeviceToken,
                              StatusCode |-> res.StatusCode, Reason |-> res.Reason,
                              ok |-> ok]}
                      /\ store' = IF ok
                                  THEN DevicesDelete(store, task.uids[task.i],
                                                     task.messages[task.i].DeviceToken)
                                  ELSE store
    /\ UNCHANGED <<initRet, made, input, channel, stop, config, loop, exited,
                   submitted, nchan>>
    /\ UNCHANGED <<fvars, pvars, wvars>>

\* Lines 95-101 when Push returns an error and a nil response: the error is
\* logged and res.StatusCode dereferences nil; the panic of a goroutine
\* ends the process.
TaskPushError(t) ==
    /\ TaskCanRun
    /\ t \in 1..Len(tasks)
    /\ tasks[t].pc = "wait"
    /\ exited' = TRUE
    /\ last' = NoResponse
    /\ UNCHANGED <<initRet, made, input, channel, stop, config, loop, tasks,
                   store, deleted, submitted, nchan>>
    /\ UNCHANGED <<fvars, pvars, wvars>>

\* The adapter with producers that submit Receipts: every answer of the
\* provider, no stop and no channel request.
ANext ==
    \/ \E jsonconf \in JsonConfs : HandlerInit(jsonconf)
    \/ \E rcpt \in Receipts : Submit(rcpt)
    \/ LoopReceipt
    \/ \E t \in 1..MaxReceipts : TaskPrepare(t)
    \/ \E t \in 1..MaxReceipts : TaskPush(t)
    \/ \E t \in 1..MaxReceipts : \E res \in Responses : TaskResponse(t, res)
    \/ \E t \in 1..MaxReceipts : TaskPushError(t)

\* The Receipts and the provider's answers of the runs that look at the
\* dispatch loop: batches of one message or none.
LoopReceipts ==
    {r \in Receipts : DOMAIN r.To \in {{"u4"}, {"u5"}} \/ r.Payload.What = "del"}

LoopResponses ==
    {[StatusCode |-> 200, Reason |-> ""],
     [StatusCode |-> 410, Reason |-> ReasonUnregistered],
     [StatusCode |-> 503, Reason |-> "ServiceUnavailable"]}

\* The adapter with producers of Receipts and of channel requests and with
\* callers of Stop().
LoopNext ==
    \/ \E jsonconf \in JsonConfs : HandlerInit(jsonconf)
    \/ \E rcpt \in LoopReceipts : Submit(rcpt)
    \/ SubmitChannel
    \/ Stop
    \/ LoopReceipt
    \/ LoopChannel
    \/ LoopStop
    \/ \E t \in 1..MaxReceipts : TaskPrepare(t)
    \/ \E t \in 1..MaxReceipts : TaskPush(t)
    \/ \E t \in 1..MaxReceipts : \E res \in LoopResponses : TaskResponse(t, res)
    \/ \E t \in 1..MaxReceipts : TaskPushError(t)

\* The same adapter when Stop() is never called.
LiveNext ==
    \/ \E jsonconf \in JsonConfs : HandlerInit(jsonconf)
    \/ \E rcpt \in LoopReceipts : Submit(rcpt)
    \/ SubmitChannel
    \/ LoopReceipt
    \/ LoopChannel
    \/ \E t \in 1..MaxReceipts : TaskPrepare(t)
    \/ \E t \in 1..MaxReceipts : TaskPush(t)
    \/ \E t \in 1..MaxReceipts : \E res \in LoopResponses : TaskResponse(t, res)
    \/ \E t \in 1..MaxReceipts : TaskPushError(t)

(***************************************************************************)
(* The Feishu adapter's token cache (push/feishu).                         *)
(***************************************************************************)
\* Send tasks that call getTenantAccessToken concurrently.
NumGetters == 2
\* Calls of getTenantAccessToken each of them makes.
MaxCalls == 1
\* Steps of the clock over one run.
MaxTicks == 1
\* time.Now().Unix() at start.
StartTime == 10000

\* Line 229: a token is refreshed this many seconds before it expires.
RefreshSkew == 300

Getters == 1..NumGetters

\* The app ids of config.AppList.
AppIds == {"appA", "appB"}

\* The clock's steps, in seconds.
TickSteps == {1, 6900}

\* What the provider's authentication endpoint can answer: a transport
\* error, a body that does not decode, an error code, or code 0 with a
\* token and the seconds it stays valid.
AuthTokens == {"t1", "t2"}

AuthExpires == {300, 301, 7200}

AuthAnswers ==
    {[kind |-> k, token |-> "", expire |-> 0] : k \in {"transport", "decode", "code"}}
        \cup {[kind |-> "ok", token |-> tk, expire |-> e] :
                 tk \in AuthTokens, e \in AuthExpires}

\* The zero value a Go map read yields for a missing key.
ZeroTokenInfo == [TenantAccessToken |-> "", Expire |-> 0, Timestamp |-> 0]

\* handler.tokenInfo[appId]
TokenInfoAt(m, appId) == IF appId \in DOMAIN m THEN m[appId] ELSE ZeroTokenInfo

\* A call of getTenantAccessToken: where it stands (pc), its argument, the
\* entry it read under the shared lock (seen), the clock at that read (read)
\* and the expireTime it computed from the entry, the clock value it tested (checked), the provider
\* calls it has made (calls) and the entry its refresh is about to store
\* (pending, whose Timestamp is set when it is stored).  n counts the calls
\* the task has made.
IdleGet ==
    [pc |-> "idle", appId |-> "", read |-> 0, seen |-> ZeroTokenInfo, expireTime |-> 0,
     checked |-> 0, calls |-> 0, pending |-> ZeroTokenInfo, n |-> 0]

\* No call has just returned.
NoReturn ==
    [g |-> 0, appId |-> "", read |-> 0, seen |-> ZeroTokenInfo, expireTime |-> 0,
     checked |-> 0, calls |-> 0, entry |-> ZeroTokenInfo, token |-> "", err |-> ""]

\* The call of g returns (token, err), token being the TenantAccessToken of
\* the entry the read of line 239 yielded (the zero entry with an error).
Returned(g, entry, err) ==
    [g |-> g, appId |-> get[g].appId, read |-> get[g].read, seen |-> get[g].seen,
     expireTime |-> get[g].expireTime, checked |-> get[g].checked,
     calls |-> get[g].calls + (IF get[g].pc = "http" THEN 1 ELSE 0),
     entry |-> entry, token |-> entry.TenantAccessToken, err |-> err]

\* sendMessage if it went on after a failed getTenantAccessToken.
ProceedsToSend_Always(err) == TRUE

\* sendMessage, lines 343-346: it goes on to the message request only when
\* getTenantAccessToken returned no error.
ProceedsToSend(err) == err = ""

\* The send task after its call returned err: about to issue the message
\* request ("post"), or done with this recipient.
AfterReturn(g, err) ==
    [IdleGet EXCEPT !.n = get[g].n,
                    !.pc = IF ProceedsToSend(err) THEN "post" ELSE "idle"]

FInit ==
    /\ tokenInfo = [a \in {} |-> ZeroTokenInfo]
    /\ readers = {}
    /\ writer = 0
    /\ waiting = {}
    /\ now = StartTime
    /\ ticks = 0
    /\ fphase = "init"
    /\ inited = {}
    /\ get = [g \in Getters |-> IdleGet]
    /\ fexited = FALSE
    /\ lastRet = NoReturn

\* The clock moves while send tasks run.
Tick(d) ==
    /\ ~fexited
    /\ fphase = "running"
    /\ ticks < MaxTicks
    /\ now' = now + d
    /\ ticks' = ticks + 1
    /\ lastRet' = NoReturn
    /\ UNCHANGED <<tokenInfo, readers, writer, waiting, fphase, inited, get, fexited>>
    /\ UNCHANGED <<avars, pvars, wvars>>

\* Handler.Init, lines 110-115: one refresh per app of the list, before any
\* send task exists; a failed refresh is logged and skipped.
FeishuInitRefresh(appId, ans) ==
    /\ ~fexited
    /\ fphase = "init"
    /\ appId \in AppIds \ inited
    /\ inited' = inited \cup {appId}
    /\ tokenInfo' = IF ans.kind = "ok"
                    THEN Put(tokenInfo, appId,
                             [TenantAccessToken |-> ans.token, Expire |-> ans.expire,
                              Timestamp |-> now])
                    ELSE tokenInfo
    /\ lastRet' = NoReturn
    /\ UNCHANGED <<readers, writer, waiting, now, ticks, fphase, get, fexited>>
    /\ UNCHANGED <<avars, pvars, wvars>>

\* Handler.Init, line 121: the message processor starts.
FeishuInitDone ==
    /\ ~fexited
    /\ fphase = "init"
    /\ inited = AppIds
    /\ fphase' = "running"
    /\ lastRet' = NoReturn
    /\ UNCHANGED <<tokenInfo, readers, writer, waiting, now, ticks, inited, get, fexited>>
    /\ UNCHANGED <<avars, pvars, wvars>>

\* A send task calls getTenantAccessToken(appId) (sendMessage, line 342).
GetCall(g, appId) ==
    /\ ~fexited
    /\ fphase = "running"
    /\ get[g].pc = "idle"
    /\ get[g].n < MaxCalls
    /\ get' = [get EXCEPT ![g] = [IdleGet EXCEPT !.pc = "rlock", !.appId = appId,
                                                 !.n = get[g].n + 1]]
    /\ lastRet' = NoReturn
    /\ UNCHANGED <<tokenInfo, readers, writer, waiting, now, ticks, fphase, inited,
                   fexited>>
    /\ UNCHANGED <<avars, pvars, wvars>>

\* Line 229: the time from which the entry counts as stale.
ExpireTime(e) == e.Timestamp + e.Expire - RefreshSkew

\* Lines 228-229: RLock, which waits while a writer holds the lock or is
\* blocked in Lock(), and the read of the entry's expiry under it.
GetRLock(g) ==
    /\ ~fexited
    /\ get[g].pc = "rlock"
    /\ writer = 0
    /\ waiting = {}
    /\ readers' = readers \cup {g}
    /\ LET e == TokenInfoAt(tokenInfo, get[g].appId)
       IN get' = [get EXCEPT ![g].pc = "runlock",
                             ![g].read = now,
                             ![g].seen = e,
                             ![g].expireTime = ExpireTime(e)]
    /\ lastRet' = NoReturn
    /\ UNCHANGED <<tokenInfo, writer, waiting, now, ticks, fphase, inited, fexited>>
    /\ UNCHANGED <<avars, pvars, wvars>>

\* tokenLock.mu.RUnlock(): the caller is no holder of the shared lock any more.
RUnlock(rs, g) == rs \ {g}

\* Line 230.
GetRUnlock(g) ==
    /\ ~fexited
    /\ get[g].pc = "runlock"
    /\ readers' = RUnlock(readers, g)
    /\ get' = [get EXCEPT ![g].pc = "check"]
    /\ lastRet' = NoReturn
    /\ UNCHANGED <<tokenInfo, writer, waiting, now, ticks, fphase, inited, fexited>>
    /\ UNCHANGED <<avars, pvars, wvars>>

\* The staleness test with the comparison turned round.
IsStale_Inverted(t, expireTime) == t < expireTime

\* The staleness test with a strict comparison.
IsStale_Strict(t, expireTime) == t > expireTime

\* The staleness test one second early.
IsStale_Early(t, expireTime) == t + 1 >= expireTime

\* Line 232: the staleness test against the clock.
IsStale(t, expireTime) == t >= expireTime

GetCheck(g) ==
    /\ ~fexited
    /\ get[g].pc = "check"
    /\ get' = [get EXCEPT ![g].checked = now,
                          ![g].pc = IF IsStale(now, get[g].expireTime)
                                    THEN "lock" ELSE "read"]
    /\ lastRet' = NoReturn
    /\ UNCHANGED <<tokenInfo, readers, writer, waiting, now, ticks, fphase, inited,
                   fexited>>
    /\ UNCHANGED <<avars, pvars, wvars>>

\* refreshTenantAccessToken, line 128: Lock() is called; from here on new
\* readers wait.
RefreshLock(g) ==
    /\ ~fexited
    /\ get[g].pc = "lock"
    /\ waiting' = waiting \cup {g}
    /\ get' = [get EXCEPT ![g].pc = "locking"]
    /\ lastRet' = NoReturn
    /\ UNCHANGED <<tokenInfo, readers, writer, now, ticks, fphase, inited, fexited>>
    /\ UNCHANGED <<avars, pvars, wvars>>

\* Lock() returns: no reader and no writer holds the lock.
RefreshLocked(g) ==
    /\ ~fexited
    /\ get[g].pc = "locking"
    /\ writer = 0
    /\ readers = {}
    /\ writer' = g
    /\ waiting' = waiting \ {g}
    /\ get' = [get EXCEPT ![g].pc = "http"]
    /\ lastRet' = NoReturn
    /\ UNCHANGED <<tokenInfo, readers, now, ticks, fphase, inited, fexited>>
    /\ UNCHANGED <<avars, pvars, wvars>>

\* Lines 131-175: the authentication call and its answer, made with the
\* lock held.  Any failure returns the error (the deferred Unlock runs) and
\* getTenantAccessToken returns it with no token (line 235).
RefreshHttp(g, ans) ==
    /\ ~fexited
    /\ get[g].pc = "http"
    /\ IF ans.kind = "ok"
       THEN /\ get' = [get EXCEPT ![g].calls = @ + 1,
                                  ![g].pc = "write",
                                  ![g].pending =
                                      [TenantAccessToken |-> ans.token,
                                       Expire |-> ans.expire,
                                       Timestamp |-> 0]]
            /\ UNCHANGED writer
            /\ lastRet' = NoReturn
       ELSE /\ get' = [get EXCEPT ![g] = AfterReturn(g, ans.kind)]
            /\ writer' = 0
            /\ lastRet' = Returned(g, ZeroTokenInfo, ans.kind)
    /\ UNCHANGED <<tokenInfo, readers, waiting, now, ticks, fphase, inited, fexited>>
    /\ UNCHANGED <<avars, pvars, wvars>>

\* Lines 178-186: the entry is stored with the clock's value as its
\* Timestamp, and the deferred Unlock runs.
RefreshStore(g) ==
    /\ ~fexited
    /\ get[g].pc = "write"
    /\ tokenInfo' = Put(tokenInfo, get[g].appId, [get[g].pending EXCEPT !.Timestamp = now])
    /\ writer' = 0
    /\ get' = [get EXCEPT ![g].pc = "read"]
    /\ lastRet' = NoReturn
    /\ UNCHANGED <<readers, waiting, now, ticks, fphase, inited, fexited>>
    /\ UNCHANGED <<avars, pvars, wvars>>

\* The callers that are inside the map assignment of line 178.
MapWriters == {h \in Getters : get[h].pc = "write"}

\* Line 239: the entry's token is read without the lock.
GetReturn(g) ==
    /\ ~fexited
    /\ get[g].pc = "read"
    /\ MapWriters = {}
    /\ get' = [get EXCEPT ![g] = AfterReturn(g, "")]
    /\ lastRet' = Returned(g, TokenInfoAt(tokenInfo, get[g].appId), "")
    /\ UNCHANGED <<tokenInfo, readers, writer, waiting, now, ticks, fphase, inited,
                   fexited>>
    /\ UNCHANGED <<avars, pvars, wvars>>

\* Line 239 while another caller is inside the map assignment of line 178:
\* a data race on the map.  The read yields the entry as it was or as it is
\* being written (whose Timestamp will be the clock's value or a later one),
\* or the runtime detects the race and ends the process ("concurrent map
\* read and map write").
GetReturnRace(g) ==
    /\ ~fexited
    /\ get[g].pc = "read"
    /\ MapWriters # {}
    /\ \/ /\ \E h \in MapWriters :
               \E m \in {tokenInfo,
                          Put(tokenInfo, get[h].appId,
                              [get[h].pending EXCEPT !.Timestamp = now])} :
                   lastRet' = Returned(g, TokenInfoAt(m, get[g].appId), "")
          /\ get' = [get EXCEPT ![g] = AfterReturn(g, "")]
          /\ UNCHANGED fexited
       \/ /\ fexited' = TRUE
          /\ lastRet' = NoReturn
          /\ UNCHANGED get
    /\ UNCHANGED <<tokenInfo, readers, writer, waiting, now, ticks, fphase, inited>>
    /\ UNCHANGED <<avars, pvars, wvars>>

\* sendMessage, lines 349-375: the message request is built and issued
\* with the token as its bearer.
SendPost(g) ==
    /\ ~fexited
    /\ get[g].pc = "post"
    /\ get' = [get EXCEPT ![g].pc = "idle"]
    /\ lastRet' = NoReturn
    /\ UNCHANGED <<tokenInfo, readers, writer, waiting, now, ticks, fphase, inited,
                   fexited>>
    /\ UNCHANGED <<avars, pvars, wvars>>

FNext ==
    \/ \E d \in TickSteps : Tick(d)
    \/ \E appId \in AppIds : \E ans \in AuthAnswers : FeishuInitRefresh(appId, ans)
    \/ FeishuInitDone
    \/ \E g \in Getters : \E appId \in AppIds : GetCall(g, appId)
    \/ \E g \in Getters : GetRLock(g)
    \/ \E g \in Getters : GetRUnlock(g)
    \/ \E g \in Getters : GetCheck(g)
    \/ \E g \in Getters : RefreshLock(g)
    \/ \E g \in Getters : RefreshLocked(g)
    \/ \E g \in Getters : \E ans \in AuthAnswers : RefreshHttp(g, ans)
    \/ \E g \in Getters : RefreshStore(g)
    \/ \E g \in Getters : GetReturn(g)
    \/ \E g \in Getters : GetReturnRace(g)
    \/ \E g \in Getters : SendPost(g)

\* The provider's answers of the runs that look at the lock: an error, a
\* token that is stale as soon as it is stored and one that is not.
LockAuthAnswers ==
    {a \in AuthAnswers : a.kind = "code" \/ (a.token = "t1" /\ a.expire \in {300, 7200})}

\* The token cache with the clock at rest.
LockNext ==
    \/ \E appId \in AppIds : \E ans \in LockAuthAnswers : FeishuInitRefresh(appId, ans)
    \/ FeishuInitDone
    \/ \E g \in Getters : \E appId \in AppIds : GetCall(g, appId)
    \/ \E g \in Getters : GetRLock(g)
    \/ \E g \in Getters : GetRUnlock(g)
    \/ \E g \in Getters : GetCheck(g)
    \/ \E g \in Getters : RefreshLock(g)
    \/ \E g \in Getters : RefreshLocked(g)
    \/ \E g \in Getters : \E ans \in LockAuthAnswers : RefreshHttp(g, ans)
    \/ \E g \in Getters : RefreshStore(g)
    \/ \E g \in Getters : GetReturn(g)
    \/ \E g \in Getters : GetReturnRace(g)
    \/ \E g \in Getters : SendPost(g)

\* A step of the call of getTenantAccessToken that task g is in.  The
\* provider call is among them: handler.httpClient has a timeout (line 105).
GetStep(g) ==
    \/ GetRLock(g)
    \/ GetRUnlock(g)
    \/ GetCheck(g)
    \/ RefreshLock(g)
    \/ RefreshLocked(g)
    \/ \E ans \in LockAuthAnswers : RefreshHttp(g, ans)
    \/ RefreshStore(g)
    \/ GetReturn(g)
    \/ GetReturnRace(g)

(***************************************************************************)
(* The Feishu adapter's send task: sendFeishuMessage, sendMessage and      *)
(* sendUrgentMessage.                                                      *)
(***************************************************************************)
\* store.Users.GetAll: the union id and the app id of each user.  u3 has no
\* app id.
FeishuUsers ==
    [u \in Uids |->
        CASE u = "u1" -> [unionId |-> "on_1", feishuAppId |-> "appA"]
          [] u = "u2" -> [unionId |-> "on_2", feishuAppId |-> "appA"]
          [] u = "u3" -> [unionId |-> "on_3", feishuAppId |-> ""]
          [] u = "u4" -> [unionId |-> "on_4", feishuAppId |-> "appB"]
          [] OTHER    -> [unionId |-> "on_5", feishuAppId |-> "appB"]]

\* The Receipts a send task is started with: every action kind and call
\* state, sent by u1 to nobody, to others, and to others and u1.
WebhookReceipts ==
    {[Payload |-> [BasePayload EXCEPT !.What = w, !.Webrtc = rtc, !.AudioOnly = ao],
      Channel |-> "",
      To      |-> [u \in S |-> Rcpt(0, {}, 0)]] :
        w \in {ActMsg, ActSub, ActRead, "del"},
        rtc \in {"", "started", "missed", "accepted"},
        ao \in BOOLEAN,
        S \in {{}, {"u1"}, {"u2"}, {"u1", "u2"}, {"u2", "u3"}, {"u2", "u4"}}}

\* What the message endpoints can answer: a transport error, a body that
\* cannot be read or decoded, an error code, or code 0 with a message id.
MessageIds == {"om_1", "om_2"}

PostAnswers ==
    {[kind |-> k, messageId |-> ""] : k \in {"transport", "decode", "code"}}
        \cup {[kind |-> "ok", messageId |-> m] : m \in MessageIds}

IdleTask ==
    [pc |-> "idle", rcpt |-> [Payload |-> BasePayload, Channel |-> "", To |-> NoRecipient],
     users |-> <<>>, k |-> 0, urgent |-> FALSE, messageId |-> ""]

WInit ==
    /\ wtask = IdleTask
    /\ wreqs = <<>>

\* sendFeishuMessage if every message were urgent.
IsUrgent_Always(rcpt) == TRUE

\* Lines 295-307: isUrgent.
IsUrgent(rcpt) == rcpt.Payload.Webrtc # ""

\* Lines 245-252: the Receipts sendFeishuMessage does not drop at once.
IsPushed(rcpt) ==
    /\ rcpt.Payload.What = ActMsg
    /\ ~(rcpt.Payload.Webrtc # "" /\ rcpt.Payload.Webrtc # "started")

\* sendFeishuMessage, lines 243-327: the Receipt is dropped, or the users
\* to send to are looked up (all recipients but the sender, in the order
\* the store returns them) and the message is built.
sendFeishuMessage(rcpt, getAllOk, order) ==
    /\ wtask.pc = "idle"
    /\ order \in Orders(DOMAIN rcpt.To \ {ParseUserId(rcpt.Payload.From)})
    /\ LET users == [i \in 1..Len(order) |-> FeishuUsers[order[i]]]
           drop == \/ ~IsPushed(rcpt)
                   \/ (DOMAIN rcpt.To # {} /\ ~getAllOk)
                   \/ users = <<>>
       IN wtask' = [pc |-> IF drop THEN "done" ELSE "token",
                    rcpt |-> rcpt,
                    users |-> IF drop THEN <<>> ELSE users,
                    k |-> IF drop THEN 0 ELSE 1,
                    urgent |-> IsUrgent(rcpt),
                    messageId |-> ""]
    /\ UNCHANGED <<wreqs, avars, fvars, pvars>>

\* Line 330: the loop over the users goes on with the next one, or ends.
NextUser(w) ==
    [w EXCEPT !.k = @ + 1,
              !.pc = IF w.k + 1 > Len(w.users) THEN "done" ELSE "token",
              !.messageId = ""]

\* sendMessage, lines 338-346: a user without app id is skipped; so is one
\* whose token cannot be had.
SendMessageToken(tokenOk) ==
    /\ wtask.pc = "token"
    /\ wtask' = IF wtask.users[wtask.k].feishuAppId = "" \/ ~tokenOk
                THEN NextUser(wtask)
                ELSE [wtask EXCEPT !.pc = "post"]
    /\ UNCHANGED <<wreqs, avars, fvars, pvars>>

\* sendMessage, lines 349-415: the message POST and its answer.
SendMessagePost(ans) ==
    /\ wtask.pc = "post"
    /\ wreqs' = Append(wreqs, [method |-> "POST",
                               user |-> wtask.users[wtask.k].unionId,
                               kind |-> ans.kind,
                               messageId |-> ans.messageId])
    /\ wtask' = IF ans.kind = "ok" /\ wtask.urgent
                THEN [wtask EXCEPT !.pc = "utoken", !.messageId = ans.messageId]
                ELSE NextUser(wtask)
    /\ UNCHANGED <<avars, fvars, pvars>>

\* sendUrgentMessage, lines 419-423.
SendUrgentToken(tokenOk) ==
    /\ wtask.pc = "utoken"
    /\ wtask' = IF tokenOk THEN [wtask EXCEPT !.pc = "patch"] ELSE NextUser(wtask)
    /\ UNCHANGED <<wreqs, avars, fvars, pvars>>

\* sendUrgentMessage, lines 425-479: the urgent PATCH for the message id it
\* was given, and its answer.
SendUrgentPatch(ans) ==
    /\ wtask.pc = "patch"
    /\ wreqs' = Append(wreqs, [method |-> "PATCH",
                               user |-> wtask.users[wtask.k].unionId,
                               kind |-> ans.kind,
                               messageId |-> wtask.messageId])
    /\ wtask' = NextUser(wtask)
    /\ UNCHANGED <<avars, fvars, pvars>>

WNext ==
    \/ \E rcpt \in WebhookReceipts : \E getAllOk \in BOOLEAN :
          \E order \in Orders(DOMAIN rcpt.To \ {ParseUserId(rcpt.Payload.From)}) :
             sendFeishuMessage(rcpt, getAllOk, order)
    \/ \E tokenOk \in BOOLEAN : SendMessageToken(tokenOk)
    \/ \E ans \in PostAnswers : SendMessagePost(ans)
    \/ \E tokenOk \in BOOLEAN : SendUrgentToken(tokenOk)
    \/ \E ans \in PostAnswers : SendUrgentPatch(ans)

(***************************************************************************)
(* payloadToData called on its own.                                        *)
(***************************************************************************)
\* Contents the renderer turns into a short text, into a text longer than
\* MaxPayloadLength, and contents it fails on.
Contents ==
    {SomeContent,
     [SomeContent EXCEPT !.plain = <<"l", "o", "n", "g", "e", "r">>],
     [SomeContent EXCEPT !.plainErr = TRUE],
     [SomeContent EXCEPT !.previewErr = TRUE]}

\* The Payloads the call is given: every action kind, known or not, with
\* and without the silent flag, a call-signaling state and an edit marker.
Payloads ==
    {[BasePayload EXCEPT !.What = w, !.Silent = s, !.Topic = tp, !.Webrtc = rtc,
                         !.AudioOnly = ao, !.Replace = rp, !.Content = c] :
        w \in {ActMsg, ActSub, ActRead, "del"}, s \in BOOLEAN,
        tp \in {"p2pAB", "grpG"}, rtc \in {"", "started", "missed", "accepted"},
        ao \in BOOLEAN, rp \in {"", ":3"}, c \in Contents}

\* Texts the renderer returns: shorter than MaxPayloadLength, of exactly
\* that many runes and longer, with and without runes of several bytes.
Texts ==
    {<<>>, <<"x">>, <<"h", "i">>, <<"a", "b", "c">>, <<"U+4E2D", "a">>,
     <<"U+4E2D", "b", "c">>, <<"a", "b", "c", "d">>,
     <<"l", "o", "n", "g", "e", "r">>, <<"U+4E2D", "U+4E2D", "x", "y", "z">>}

\* The Payloads of the runs that look at the trimming of the content:
\* messages and read receipts on a P2P topic and on a group topic, from a
\* sender with a name and from one without.
TextPayloads ==
    {[BasePayload EXCEPT !.What = w, !.Topic = tp, !.From = f, !.Webrtc = rtc,
                         !.Replace = rp, !.Content = [SomeContent EXCEPT !.plain = x]] :
        w \in {ActMsg, ActRead}, tp \in {"p2pAB", "grpG"}, f \in {"usrA", "usrB"},
        rtc \in {"", "started"}, rp \in {"", ":3"}, x \in Texts}

\* The configuration PrepareApnsNotifications makes up when it is given
\* none (line 168).
BlankConfig ==
    [Enabled |-> FALSE, AppTopic |-> "", TimeToLive |-> 0, CommonConfig |-> <<>>]

\* An iOS device of u2.
SomeDevice == [DeviceId |-> "d1", Platform |-> "ios"]

\* The calls of line 201: a Receipt to u2 with a Payload that payloadToData
\* accepts, u2 having received the event or not, under the adapter's
\* configuration or the blank one.
Args ==
    {[rcpt   |-> [Payload |-> p, Channel |-> "",
                  To |-> [u \in {"u2"} |-> Rcpt(dlv, {}, 2)]],
      config |-> c, uid |-> "u2", d |-> SomeDevice] :
        p \in {q \in Payloads : payloadToData(q).err = ""},
        dlv \in {0, 1}, c \in {GoodConfig, BlankConfig}}

NoArg ==
    [rcpt   |-> [Payload |-> BasePayload, Channel |-> "", To |-> NoRecipient],
     config |-> BlankConfig, uid |-> "", d |-> SomeDevice]

\* No call of payloadToData or of apnsNotificationConfig on its own.
PNone ==
    /\ pl = BasePayload
    /\ result = <<>>
    /\ arg = NoArg
    /\ ret = <<>>

PInit ==
    /\ pl \in Payloads
    /\ result = <<>>
    /\ arg = NoArg
    /\ ret = <<>>

TInit ==
    /\ pl \in TextPayloads
    /\ result = <<>>
    /\ arg = NoArg
    /\ ret = <<>>

\* The call and its return.
Convert ==
    /\ result = <<>>
    /\ result' = <<payloadToData(pl)>>
    /\ UNCHANGED <<pl, arg, ret, avars, fvars, wvars>>

EInit ==
    /\ pl = BasePayload
    /\ result = <<>>
    /\ arg \in Args
    /\ ret = <<>>

\* The dataset the call of line 201 is given.
ArgData == UserData(arg.rcpt, payloadToData(arg.rcpt.Payload).data, arg.uid)

\* Line 201: the call and its return.
Configure ==
    /\ ret = <<>>
    /\ ret' = <<apnsNotificationConfig(arg.rcpt.Payload.What,
                                       UserTopic(arg.rcpt, arg.uid), ArgData,
                                       arg.rcpt.To[arg.uid].Unread, arg.config,
                                       Envelope(arg.config,
                                                UserTopic(arg.rcpt, arg.uid), arg.d),
                                       arg.uid)>>
    /\ UNCHANGED <<pl, result, arg, avars, fvars, wvars>>

(***************************************************************************)
(* Specifications.                                                         *)
(***************************************************************************)
Init == AInit /\ FInit /\ PNone /\ WInit

InitPayload == AInit /\ FInit /\ PInit /\ WInit

InitEnvelope == AInit /\ FInit /\ EInit /\ WInit

InitTrim == AInit /\ FInit /\ TInit /\ WInit

Next == ANext

\* The APNs adapter.
Spec == Init /\ [][Next]_vars

\* The Feishu token cache.
SpecToken == Init /\ [][FNext]_vars

\* The Feishu token cache when every task that can take a step of its call
\* takes one in the end: goroutines are scheduled, a free lock is granted
\* and the provider call returns.
SpecLock == Init /\ [][LockNext]_vars /\ \A g \in Getters : WF_vars(GetStep(g))

\* A send task of the Feishu adapter.
SpecWebhook == Init /\ [][WNext]_vars

\* payloadToData on every Payload.
SpecPayload == InitPayload /\ [][Convert]_vars

\* payloadToData on contents of every length.
SpecTrim == InitTrim /\ [][Convert]_vars

\* apnsNotificationConfig on every accepted Payload.
SpecEnvelope == InitEnvelope /\ [][Configure]_vars

\* The APNs adapter's dispatch loop, with Stop().
SpecLoop == Init /\ [][LoopNext]_vars

\* The APNs adapter's dispatch loop when Stop() is never called.  The loop
\* is a goroutine of its own and its select takes a ready case at random,
\* so a Receipt that waits in the queue is taken in the end; nothing is
\* assumed of the send tasks, which may stay in a provider call for ever.
SpecLive == Init /\ [][LiveNext]_vars /\ WF_vars(LoopReceipt)

(***************************************************************************)
(* Properties of the APNs adapter, checked under Spec.                     *)
(***************************************************************************)
\* The send task that handled the response `last`.
LastTask == tasks[last.task]

\* The calls of store.Devices.Delete made for message i of task t.
DeletedFor(t, i) == {r \in deleted : r.task = t /\ r.i = i}

\* The device ids registered to user uid at start.
RegisteredIds(uid) == {InitStore[uid][k].DeviceId : k \in 1..Len(InitStore[uid])}

\* C1: a non-200 response whose reason is one of the permanent
\* configuration reasons (the three case lists of lines 109-111) ends the
\* batch: the task is over, no later message is sent, nothing is deleted.
C1_ConfigReasonStopsBatch ==
    (last.task # 0 /\ last.StatusCode # 200
        /\ last.Reason \in ConfigReasons109 \cup ConfigReasons110 \cup ConfigReasons111)
    => /\ LastTask.pc = "done"
       /\ DeletedFor(last.task, last.i) = {}

\* C2: a non-200 response with reason Unregistered makes one call of
\* store.Devices.Delete, for exactly (uids[i], messages[i].DeviceToken), and
\* the loop goes on with message i+1 whether or not the deletion succeeded.
C2_UnregisteredDeletesAndContinues ==
    (last.task # 0 /\ last.StatusCode # 200 /\ last.Reason = ReasonUnregistered)
    => /\ DeletedFor(last.task, last.i) # {}
       /\ \A r \in DeletedFor(last.task, last.i) :
             /\ r.uid = LastTask.uids[last.i]
             /\ r.deviceID = LastTask.messages[last.i].DeviceToken
       /\ LastTask.i = last.i + 1
       /\ LastTask.pc = IF last.i < Len(LastTask.messages) THEN "push" ELSE "done"

\* C2 happens: an Unregistered answer to a message that is not the last of
\* its batch, a deletion that failed, and the task about to send the next.
C2_Witness ==
    /\ last.task # 0 /\ last.StatusCode # 200 /\ last.Reason = ReasonUnregistered
    /\ last.i < Len(LastTask.messages)
    /\ LastTask.pc = "push"
    /\ \E r \in DeletedFor(last.task, last.i) : ~r.ok

\* C3: a non-200 response with a transient reason, or with a reason no case
\* names, ends the batch at that message: the messages up to it were sent
\* once each, none after it is sent and nothing is deleted for it.
C3_TransientOrUnknownStopsBatch ==
    (last.task # 0 /\ last.StatusCode # 200
        /\ last.Reason \in TransientReasons \cup OtherReasons)
    => /\ LastTask.pc = "done"
       /\ LastTask.i = last.i
       /\ LastTask.sent = [k \in 1..last.i |-> k]
       /\ DeletedFor(last.task, last.i) = {}

\* C3 happens: a transient answer to a message with others still unsent.
C3_Witness ==
    /\ last.task # 0 /\ last.StatusCode # 200
    /\ last.Reason \in TransientReasons
    /\ last.i < Len(LastTask.messages)
    /\ LastTask.pc = "done"

\* C4: every call of store.Devices.Delete was made for the device and user
\* of a message whose own response was non-200 with reason Unregistered; a
\* response of status 200, whatever reason it carries, deletes nothing and
\* the loop goes on.
C4_DeleteOnlyOnOwnUnregistered ==
    /\ \A r \in deleted :
          /\ r.StatusCode # 200
          /\ r.Reason = ReasonUnregistered
          /\ r.uid = tasks[r.task].uids[r.i]
          /\ r.deviceID = tasks[r.task].messages[r.i].DeviceToken
    /\ (last.task # 0 /\ last.StatusCode = 200)
       => /\ DeletedFor(last.task, last.i) = {}
          /\ LastTask.i = last.i + 1
          /\ LastTask.pc = IF last.i < Len(LastTask.messages) THEN "push" ELSE "done"

\* C4 happens: status 200 with the reason string Unregistered, nothing
\* deleted, the task about to send the next message.
C4_Witness ==
    /\ last.task # 0 /\ last.StatusCode = 200 /\ last.Reason = ReasonUnregistered
    /\ LastTask.pc = "push"
    /\ deleted = {}

\* C5: no returned message is addressed to a device id listed in the
\* Devices set of any recipient of the Receipt.
C5_OnlineDevicesSkipped ==
    \A t \in 1..Len(tasks) : \A k \in 1..Len(tasks[t].messages) :
        \A uid \in DOMAIN tasks[t].rcpt.To :
            tasks[t].messages[k].DeviceToken \notin tasks[t].rcpt.To[uid].Devices

\* C5 happens: a task has built messages for a Receipt in which one
\* recipient's Devices set holds a device registered to another recipient.
C5_Witness ==
    \E t \in 1..Len(tasks) :
        /\ tasks[t].lookup = "ok"
        /\ Len(tasks[t].messages) > 0
        /\ \E u, v \in DOMAIN tasks[t].rcpt.To :
              /\ u # v
              /\ tasks[t].rcpt.To[u].Devices \cap RegisteredIds(v) # {}

\* C6: every returned message belongs to a registered device of its user
\* whose platform is "ios".
C6_OnlyIosDevicesGetMessages ==
    \A t \in 1..Len(tasks) : \A k \in 1..Len(tasks[t].messages) :
        \E n \in 1..Len(InitStore[tasks[t].uids[k]]) :
            /\ InitStore[tasks[t].uids[k]][n].DeviceId = tasks[t].messages[k].DeviceToken
            /\ InitStore[tasks[t].uids[k]][n].Platform = "ios"

\* C7: a task whose device lookup failed, or found no device for a Receipt
\* that names no channel, has no message, sends nothing, deletes nothing
\* and is over.
C7_NoDevicesNoSend ==
    \A t \in 1..Len(tasks) :
        (/\ tasks[t].pc # "prepare"
         /\ \/ tasks[t].lookup = "err"
            \/ tasks[t].lookup \in {"zero", "none"} /\ tasks[t].rcpt.Channel = "")
        => /\ tasks[t].messages = <<>>
           /\ tasks[t].uids = <<>>
           /\ tasks[t].sent = <<>>
           /\ tasks[t].pc = "done"
           /\ \A r \in deleted : r.task # t

\* C7 happens: one task's lookup failed for recipients who have devices,
\* another's found no device.
C7_Witness ==
    \E t1, t2 \in 1..Len(tasks) :
        /\ tasks[t1].lookup = "err"
        /\ \E uid \in DOMAIN tasks[t1].rcpt.To : store[uid] # <<>>
        /\ tasks[t1].pc = "done"
        /\ tasks[t2].lookup = "zero"
        /\ tasks[t2].rcpt.Channel = ""
        /\ tasks[t2].pc = "done"

\* C8: for a Receipt whose action kind is neither message, subscription nor
\* read, payloadToData fails with "unknown push type"; the task sends
\* nothing, deletes nothing and ends when it has prepared, and the dispatch
\* loop keeps running.
C8_UnknownKindSendsNothing ==
    \A t \in 1..Len(tasks) :
        tasks[t].rcpt.Payload.What \notin {ActMsg, ActSub, ActRead}
        => /\ payloadToData(tasks[t].rcpt.Payload).err = "unknown push type"
           /\ tasks[t].messages = <<>>
           /\ tasks[t].sent = <<>>
           /\ tasks[t].pc \in {"prepare", "done"}
           /\ \A r \in deleted : r.task # t
           /\ loop = "running"

\* C8 happens: the task of an unknown kind is over, and the loop has
\* started the task of a later Receipt, which has sent a message.
C8_Witness ==
    /\ Len(tasks) = 2
    /\ tasks[1].rcpt.Payload.What = "del"
    /\ tasks[1].pc = "done"
    /\ tasks[1].rcpt.To # NoRecipient
    /\ tasks[2].sent # <<>>

(***************************************************************************)
(* Properties of the Feishu token cache, checked under SpecToken.          *)
(***************************************************************************)
\* The tokens a read of the cache may yield for appId: the stored entry's,
\* or that of an entry being stored.
CachedTokens(appId) ==
    {TokenInfoAt(tokenInfo, appId).TenantAccessToken}
        \cup {get[h].pending.TenantAccessToken :
                 h \in {w \in MapWriters : get[w].appId = appId}}

\* C9: a call makes a provider authentication call if and only if the clock
\* it tested was at or past Timestamp + Expire - 300 of the entry it read
\* (0 and 0 for an app without entry); otherwise a call that returns has
\* made no provider call and returns the cached token.
C9_RefreshIffStale ==
    /\ \A g \in Getters :
          get[g].pc \in {"lock", "locking", "http", "write"}
          => get[g].checked >= get[g].seen.Timestamp + get[g].seen.Expire - 300
    /\ lastRet.g # 0
       => /\ lastRet.calls \in {0, 1}
          /\ lastRet.calls = 1
             <=> lastRet.checked >= lastRet.seen.Timestamp + lastRet.seen.Expire - 300
          /\ lastRet.calls = 0
             => /\ lastRet.err = ""
                /\ lastRet.token \in CachedTokens(lastRet.appId)

\* C9 happens: a call that tested the clock exactly at Timestamp + Expire -
\* 300 of an existing entry returns after one provider call.
C9_Witness ==
    /\ lastRet.g # 0
    /\ lastRet.seen.Timestamp > 0
    /\ lastRet.checked = lastRet.seen.Timestamp + lastRet.seen.Expire - 300
    /\ lastRet.calls = 1
    /\ lastRet.err = ""

\* C10 as stated: a call that tests the clock at the value at which the
\* entry it read was stored makes no provider call, whatever the expiry.
C10_NoRefreshRightAfterRefresh ==
    (lastRet.g # 0 /\ lastRet.seen.Timestamp = lastRet.checked)
    => lastRet.calls = 0

\* C10 amended: a call that tests the clock at the value at which the entry
\* it read was stored, an entry whose expiry exceeds 300 seconds, makes no
\* provider call and, when it returns, returns the cached token without
\* error.
C10_NoRefreshRightAfterRefreshOver300 ==
    /\ \A g \in Getters :
          (get[g].pc \in {"lock", "locking", "http", "write"}
              /\ get[g].seen.Timestamp = get[g].checked)
          => get[g].seen.Expire <= 300
    /\ (lastRet.g # 0 /\ lastRet.seen.Timestamp = lastRet.checked
           /\ lastRet.seen.Expire > 300)
       => /\ lastRet.calls = 0
          /\ lastRet.err = ""
          /\ lastRet.token \in CachedTokens(lastRet.appId)

\* C10 happens: an entry of expiry 301 stored at the clock value the call
\* tested; the call returns the entry's token with no provider call.
C10_Witness ==
    /\ lastRet.g # 0
    /\ lastRet.seen.Timestamp = lastRet.checked
    /\ lastRet.seen.Expire = 301
    /\ lastRet.calls = 0
    /\ lastRet.token = lastRet.seen.TenantAccessToken

\* C11: a call that returns an error (its refresh failed in transport, in
\* decoding or by the provider's code) leaves the token cache as it was,
\* returns no token, and its send task issues no message request.
C11_FailedRefreshKeepsEntry ==
    [][(lastRet'.g # 0 /\ lastRet'.err # "")
       => /\ tokenInfo' = tokenInfo
          /\ lastRet'.token = ""
          /\ lastRet'.calls = 1
          /\ get'[lastRet'.g].pc = "idle"]_vars

\* C11 happens: a refresh has just failed on the provider's error code for
\* an app that has a cached entry; the entry is still there and the task
\* stands before no request.
C11_Witness ==
    /\ lastRet.g # 0
    /\ lastRet.err = "code"
    /\ lastRet.seen.Timestamp > 0
    /\ TokenInfoAt(tokenInfo, lastRet.appId) = lastRet.seen
    /\ get[lastRet.g].pc = "idle"

\* C12 as stated: the entry whose token a call returns without error is not
\* expired when the call returns.
C12_ReturnedTokenNotExpired ==
    (lastRet.g # 0 /\ lastRet.err = "")
    => now < lastRet.entry.Timestamp + lastRet.entry.Expire

\* C12 amended: the entry whose token a call returns without error is not
\* expired when the call returns, if the provider gave the entry at least
\* 300 seconds and fewer than 300 seconds have passed since the call read
\* the cache under the shared lock.
C12_ReturnedTokenNotExpiredShortCall ==
    (lastRet.g # 0 /\ lastRet.err = "" /\ lastRet.entry.Expire >= 300
        /\ now - lastRet.read < 300)
    => now < lastRet.entry.Timestamp + lastRet.entry.Expire

\* C12 happens: a call that found its entry stale a second after it was
\* stored returns the token of the entry its own refresh stored.
C12_Witness ==
    /\ lastRet.g # 0
    /\ lastRet.err = ""
    /\ lastRet.calls = 1
    /\ lastRet.seen.Timestamp > 0
    /\ lastRet.read > lastRet.seen.Timestamp
    /\ lastRet.entry.Timestamp = now
    /\ now < lastRet.entry.Timestamp + lastRet.entry.Expire

\* C13: no two send tasks are at the token cache map at once, one at the
\* read of getTenantAccessToken's return and the other at the assignment of
\* refreshTenantAccessToken.
C13_NoReadDuringWrite ==
    \A g, h \in Getters :
        g # h => ~(get[g].pc = "read" /\ get[h].pc = "write")

(***************************************************************************)
(* Properties of the dispatch loop, checked under SpecLoop, SpecLive and   *)
(* Spec.                                                                   *)
(***************************************************************************)
\* C14: while a stop signal placed by Stop() is available, no step takes a
\* Receipt from the queue or starts a send task.
C14_NoDequeueAfterStop ==
    [][stop > 0 => (Len(tasks') = Len(tasks) /\ Len(input') >= Len(input))]_vars

\* C15: if Stop() is never called, the n-th Receipt placed in the queue is
\* in the end handed to the n-th send task, whatever the send tasks do.
C15_EveryReceiptDequeued ==
    \A n \in 1..MaxReceipts : (Len(submitted) >= n) ~> (Len(tasks) >= n)

C17_StartupFailureContained ==
    /\ initRet = <<>> => ~exited
    /\ (initRet # <<>> /\ ~initRet[1].ok) => (~made /\ ~IsReady)

\* C18: a push that fails in transport does not end the process: once Init
\* has returned, the process keeps running.
C18_TransportErrorContained ==
    initRet # <<>> => ~exited

(***************************************************************************)
(* Properties of payloadToData, checked under SpecPayload.                 *)
(***************************************************************************)
\* payloadToData has returned a dataset and no error.
Accepted == result # <<>> /\ result[1].err = ""

\* C19 as stated: the dataset of every accepted Payload whose call state is
\* "started" or "missed" is silent and carries an action code.
C19_CallIsSilentWithAct ==
    (Accepted /\ pl.Webrtc \in {"started", "missed"})
    => /\ Get(result[1].data, "silent") = "true"
       /\ Get(result[1].data, "act") # ""

\* C19 amended: the dataset of every accepted new-message Payload whose call
\* state is "started" or "missed" is silent and carries an action code.
C19_MessageCallIsSilentWithAct ==
    (Accepted /\ pl.What = ActMsg /\ pl.Webrtc \in {"started", "missed"})
    => /\ Get(result[1].data, "silent") = "true"
       /\ Get(result[1].data, "act") # ""

\* C19 happens: a message of a missed call that was not marked silent comes
\* out silent, with the action code of a missed call.
C19_Witness ==
    /\ Accepted
    /\ pl.What = ActMsg
    /\ pl.Webrtc = "missed"
    /\ ~pl.Silent
    /\ Get(result[1].data, "silent") = "true"
    /\ Get(result[1].data, "act") = Itoa(ACT_MISSED)

\* C20 as stated: the dataset of every accepted Payload with an edit marker
\* is silent.
C20_EditIsSilent ==
    (Accepted /\ pl.Replace # "")
    => Get(result[1].data, "silent") = "true"

\* C20 amended: the dataset of every accepted new-message or read-receipt
\* Payload with an edit marker is silent.
C20_MessageOrReadEditIsSilent ==
    (Accepted /\ pl.What \in {ActMsg, ActRead} /\ pl.Replace # "")
    => Get(result[1].data, "silent") = "true"

\* C20 happens: an edited message that is no call event and was not marked
\* silent comes out silent, with its edit marker.
C20_Witness ==
    /\ Accepted
    /\ pl.What = ActMsg
    /\ pl.Replace # ""
    /\ pl.Webrtc = ""
    /\ ~pl.Silent
    /\ Get(result[1].data, "silent") = "true"
    /\ Get(result[1].data, "replace") = pl.Replace

(***************************************************************************)
(* Properties of the envelopes, checked under Spec.                        *)
(***************************************************************************)
\* The envelopes task t has handed to handler.client.Push so far.
Handed(t) == {tasks[t].messages[tasks[t].sent[k]] : k \in 1..Len(tasks[t].sent)}

\* C21: every notification handed to the provider client has Priority 5 or
\* 10, PushType alert or background and a body with a top-level "aps",
\* whatever the platform tag of the device.
C21_HandedNotificationsConfigured ==
    \A t \in 1..Len(tasks) : \A m \in Handed(t) :
        /\ m.Priority \in {5, 10}
        /\ m.PushType \in {PushTypeAlert, PushTypeBackground}
        /\ m.Payload # <<>>
        /\ m.Payload[1].aps # <<>>

(***************************************************************************)
(* The lock of the token cache, checked under SpecLock.                    *)
(***************************************************************************)
\* Task g is inside a call of getTenantAccessToken.
InCall(g) == get[g].pc \notin {"idle", "post"}

\* C22: no interleaving of concurrent calls of getTenantAccessToken and
\* refreshTenantAccessToken deadlocks on tokenLock, so that every call a
\* task is in returns, the provider's authentication calls returning.
C22_EveryCallReturns ==
    \A g \in Getters : InCall(g) ~> ~InCall(g)

(***************************************************************************)
(* The datasets of the recipients, checked under Spec.                     *)
(***************************************************************************)
\* The dataset payloadToData made of the Receipt of task t.
BaseData(t) == payloadToData(tasks[t].rcpt.Payload).data

\* Message i of task t goes to a recipient who has not received the event
\* and the topic is no P2P topic.
Undiverged(t, i) ==
    /\ tasks[t].rcpt.To[tasks[t].uids[i]].Delivered = 0
    /\ GetTopicCat(tasks[t].rcpt.Payload.Topic) # "p2p"

\* C23: PrepareApnsNotifications does not change the base dataset: the
\* message of a recipient with Delivered = 0 on a topic that is not P2P is
\* built from the base dataset's "silent" and "topic" (from the whole base
\* dataset), in every order of the recipients and whatever the others have
\* received.
C23_BaseDatasetNotMutated ==
    \A t \in 1..Len(tasks) : \A i \in 1..Len(tasks[t].messages) :
        Undiverged(t, i)
        => /\ tasks[t].datasets[i] = BaseData(t)
           /\ Get(tasks[t].datasets[i], "silent") = Get(BaseData(t), "silent")
           /\ Get(tasks[t].datasets[i], "topic") = tasks[t].rcpt.Payload.Topic
           /\ tasks[t].messages[i].CollapseID = tasks[t].rcpt.Payload.Topic

\* C23 happens: in one batch the messages of a recipient who was silenced
\* because the event had reached them come before the message of one who
\* had not received it, and that one's dataset is not silent.
C23_Witness ==
    \E t \in 1..Len(tasks) : \E i, j \in 1..Len(tasks[t].messages) :
        /\ i < j
        /\ tasks[t].rcpt.To[tasks[t].uids[i]].Delivered > 0
        /\ Get(tasks[t].datasets[i], "silent") = "true"
        /\ Undiverged(t, j)
        /\ Get(tasks[t].datasets[j], "silent") = ""

(***************************************************************************)
(* Properties of apnsNotificationConfig, checked under SpecEnvelope.       *)
(***************************************************************************)
\* The "aps" block of the body the call returned.
RetAps == ret[1].msg.Payload[1].aps[1]

C25_PriorityByFirstMatch ==
    ret # <<>>
    => LET m == ret[1].msg
           level == RetAps.InterruptionLevel
           hasAct == m.Payload[1].act # <<>>
       IN IF Get(ArgData, "webrtc") \in {"started", "missed"}
          THEN /\ m.Priority = 10
               /\ m.PushType = "alert"
               /\ level = "critical"
               /\ hasAct
               /\ m.Payload[1].act[1] = Get(ArgData, "act")
          ELSE IF arg.rcpt.Payload.What = ActRead
          THEN /\ m.Priority = 5
               /\ m.PushType = "background"
               /\ level = "passive"
               /\ ~hasAct
          ELSE /\ m.Priority = 10
               /\ m.PushType = "alert"
               /\ level = "time-sensitive"
               /\ ~hasAct

\* C25 happens: a missed call comes out with priority 10, push type alert,
\* level critical and the action code of a missed call.
C25_Witness ==
    /\ ret # <<>>
    /\ arg.rcpt.Payload.What = ActMsg
    /\ arg.rcpt.Payload.Webrtc = "missed"
    /\ ret[1].msg.Priority = 10
    /\ ret[1].msg.PushType = "alert"
    /\ RetAps.InterruptionLevel = "critical"
    /\ ret[1].msg.Payload[1].act = <<Itoa(ACT_MISSED)>>

(***************************************************************************)
(* The order of the sends of one task, checked under Spec.                 *)
(***************************************************************************)
\* C26: a task sends its messages in the order of the list, one at a time,
\* and its uid list stays aligned with the list: both have the same length
\* and every message's DeviceToken is a device registered to the uid at the
\* same index, so that a deletion names the user whose token was rejected.
C26_SendsInOrderUidsAligned ==
    /\ \A t \in 1..Len(tasks) :
          /\ Len(tasks[t].uids) = Len(tasks[t].messages)
          /\ \A i \in 1..Len(tasks[t].messages) :
                /\ i <= Len(tasks[t].uids)
                /\ tasks[t].uids[i] \in DOMAIN tasks[t].rcpt.To
                /\ tasks[t].messages[i].DeviceToken \in RegisteredIds(tasks[t].uids[i])
          /\ tasks[t].sent = [k \in 1..Len(tasks[t].sent) |-> k]
          /\ tasks[t].pc = "wait" => tasks[t].i = Len(tasks[t].sent)
          /\ tasks[t].pc = "push" => tasks[t].i = Len(tasks[t].sent) + 1
    /\ \A r \in deleted :
          /\ r.i \in 1..Len(tasks[r.task].sent)
          /\ r.deviceID = tasks[r.task].messages[r.i].DeviceToken
          /\ r.deviceID \in RegisteredIds(r.uid)

\* C26 happens: a task has sent two messages to devices of two users, and
\* the second was rejected as unregistered and deleted for its own user.
C26_Witness ==
    \E t \in 1..Len(tasks) :
        /\ tasks[t].sent = <<1, 2>>
        /\ tasks[t].uids[1] # tasks[t].uids[2]
        /\ tasks[t].messages[1].DeviceToken \notin RegisteredIds(tasks[t].uids[2])
        /\ \E r \in deleted :
              r.task = t /\ r.i = 2 /\ r.uid = tasks[t].uids[2]

(***************************************************************************)
(* Stop() and the send tasks, checked under SpecLoop.                      *)
(***************************************************************************)
\* C27: Stop() neither cancels nor waits for send tasks: the first Stop()
\* after a successful Init can return at once, and once a stop signal is
\* placed or the loop has exited every send task started earlier can still
\* take its next step: prepare, send, handle the response (delete included).
C27_StopLeavesTasksRunning ==
    /\ (made /\ ~exited /\ loop = "running" /\ stop = 0) => ENABLED Stop
    /\ (~exited /\ (stop > 0 \/ loop = "exited"))
       => \A t \in 1..Len(tasks) :
             /\ tasks[t].pc = "prepare" => ENABLED TaskPrepare(t)
             /\ tasks[t].pc = "push" => ENABLED TaskPush(t)
             /\ tasks[t].pc = "wait"
                => \A res \in LoopResponses : ENABLED TaskResponse(t, res)

\* C27 happens: with the loop exited, a send task has just had a message
\* rejected as unregistered, has deleted the registration and is done.
C27_Witness ==
    /\ loop = "exited"
    /\ last.task # 0
    /\ last.Reason = ReasonUnregistered
    /\ DeletedFor(last.task, last.i) # {}
    /\ LastTask.pc = "done"

(***************************************************************************)
(* The trimming of the content, checked under SpecTrim.                    *)
(***************************************************************************)
\* The content of the Payload pl after plain-text rendering and, on a
\* group, find or system topic, with the sender's name in front.
Rendered ==
    IF GetTopicCat(pl.Topic) \in {"grp", "fnd", "sys"}
    THEN getUserName(pl) \o <<":", " ">> \o pl.Content.plain
    ELSE pl.Content.plain

\* C28: for a new-message Payload with no call state, a rendered and
\* prefixed content of more than MaxPayloadLength runes comes out as its
\* first MaxPayloadLength runes and one ellipsis rune, MaxPayloadLength + 1
\* runes in all; one of MaxPayloadLength runes or fewer comes out unchanged,
\* also when it has more bytes than that.
C28_ContentTrimmedByRunes ==
    (Accepted /\ pl.What = ActMsg /\ pl.Webrtc = "")
    => IF Len(Rendered) > MaxPayloadLength
       THEN /\ result[1].data["content"]
                  = SubSeq(Rendered, 1, MaxPayloadLength) \o <<"U+2026">>
            /\ Len(result[1].data["content"]) = MaxPayloadLength + 1
       ELSE result[1].data["content"] = Rendered

\* C28 happens: a content of exactly MaxPayloadLength runes and of more
\* bytes than that comes out unchanged.
C28_Witness ==
    /\ Accepted
    /\ pl.What = ActMsg
    /\ pl.Webrtc = ""
    /\ Len(Rendered) = MaxPayloadLength
    /\ ByteLen(Rendered) > MaxPayloadLength
    /\ result[1].data["content"] = Rendered

(***************************************************************************)
(* The urgent escalation of the Feishu adapter, checked under SpecWebhook. *)
(***************************************************************************)
\* C29: an urgent PATCH for a user is issued only for a new-message Receipt
\* whose call state is "started", and only right after the message POST to
\* the same user was answered with code 0, with the message id of that
\* answer; a Receipt of another kind or with another non-empty call state
\* causes no request at all.
C29_UrgentOnlyAfterStartedCallPost ==
    /\ \A i \in 1..Len(wreqs) :
          wreqs[i].method = "PATCH"
          => /\ wtask.rcpt.Payload.What = ActMsg
             /\ wtask.rcpt.Payload.Webrtc = "started"
             /\ i > 1
             /\ wreqs[i - 1].method = "POST"
             /\ wreqs[i - 1].kind = "ok"
             /\ wreqs[i - 1].user = wreqs[i].user
             /\ wreqs[i - 1].messageId = wreqs[i].messageId
    /\ (wtask.rcpt.Payload.What # ActMsg
          \/ wtask.rcpt.Payload.Webrtc \notin {"", "started"})
       => wreqs = <<>>

\* C29 happens: for a started call to two users, the second user's message
\* got another message id than the first's, and each user's PATCH followed
\* with the id of that user's message.
C29_Witness ==
    /\ wtask.pc = "done"
    /\ wtask.rcpt.Payload.Webrtc = "started"
    /\ Len(wreqs) = 4
    /\ wreqs[2].method = "PATCH"
    /\ wreqs[4].method = "PATCH"
    /\ wreqs[2].user # wreqs[4].user
    /\ wreqs[2].messageId # wreqs[4].messageId
    /\ wreqs[4].messageId = wreqs[3].messageId

=============================================================================
